---- MODULE Spec2Model ----
(***************************************************************************)
(* A model of the column-mapping ETL utility: the target table processor   *)
(* and scheduler recorder of schedularlogic.py, and the spreadsheet        *)
(* loaders of datamapping.py and data_upload.py.                           *)
(*                                                                         *)
(* Python strings are sequences of one-character strings, so that parsing  *)
(* and formatting are computed character by character.  A Python value is  *)
(* a record [t, s, n, e]:                                                  *)
(*    t = "none"   None                                                    *)
(*    t = "str"    the string s                                            *)
(*    t = "int"    the integer n                                           *)
(*    t = "float"  the decimal n / 10^e (e minimal)                        *)
(*    t = "nan"    the float NaN                                           *)
(*    t = "raise"  no value: the evaluation raised the exception named s[1]*)
(***************************************************************************)
EXTENDS Integers, Sequences, FiniteSets, TLC

----------------------------------------------------------------------------
(* Values *)

NoneV == [t |-> "none", s |-> <<>>, n |-> 0, e |-> 0]
StrV(chars) == [t |-> "str", s |-> chars, n |-> 0, e |-> 0]
IntV(k) == [t |-> "int", s |-> <<>>, n |-> k, e |-> 0]
FloatV(k, x) == [t |-> "float", s |-> <<>>, n |-> k, e |-> x]
NaNV == [t |-> "nan", s |-> <<>>, n |-> 0, e |-> 0]
Raise(exc) == [t |-> "raise", s |-> <<exc>>, n |-> 0, e |-> 0]

IsRaise(v) == v.t = "raise"

\* Python truthiness, as tested by `if not value` and `if transformation_logic`.
Truthy(v) ==
    CASE v.t = "none" -> FALSE
      [] v.t = "str" -> v.s # <<>>
      [] v.t = "int" -> v.n # 0
      [] v.t = "float" -> v.n # 0
      [] OTHER -> TRUE

----------------------------------------------------------------------------
(* Characters and numerals *)

DigitChars == <<"0", "1", "2", "3", "4", "5", "6", "7", "8", "9">>

IsDigit(c) == \E i \in 1..Len(DigitChars) : DigitChars[i] = c

DigitVal(c) == (CHOOSE i \in 1..Len(DigitChars) : DigitChars[i] = c) - 1

AllDigits(chars) == \A i \in 1..Len(chars) : IsDigit(chars[i])

RECURSIVE DigitsToNat(_)
DigitsToNat(chars) ==
    IF chars = <<>> THEN 0
    ELSE 10 * DigitsToNat(SubSeq(chars, 1, Len(chars) - 1))
         + DigitVal(chars[Len(chars)])

RECURSIVE NatToDigits(_)
NatToDigits(k) ==
    IF k < 10 THEN <<DigitChars[k + 1]>>
    ELSE NatToDigits(k \div 10) \o <<DigitChars[(k % 10) + 1]>>

\* str(k) of a Python int.
IntToChars(k) == IF k < 0 THEN <<"-">> \o NatToDigits(0 - k) ELSE NatToDigits(k)

\* "%02d"
Pad2(k) == IF k < 10 THEN <<"0">> \o NatToDigits(k) ELSE NatToDigits(k)

IsSpace(c) == c = " "

RECURSIVE LStrip(_)
LStrip(chars) ==
    IF chars # <<>> /\ IsSpace(chars[1]) THEN LStrip(Tail(chars)) ELSE chars

RECURSIVE RStrip(_)
RStrip(chars) ==
    IF chars # <<>> /\ IsSpace(chars[Len(chars)])
    THEN RStrip(SubSeq(chars, 1, Len(chars) - 1))
    ELSE chars

\* str.strip()
Strip(chars) == RStrip(LStrip(chars))

\* Index of the first occurrence of c in chars, 0 when there is none.
IndexOf(chars, c) ==
    IF \E i \in 1..Len(chars) : chars[i] = c
    THEN CHOOSE i \in 1..Len(chars) :
            chars[i] = c /\ \A j \in 1..(i - 1) : chars[j] # c
    ELSE 0

----------------------------------------------------------------------------
(* datetime.strptime / strftime *)

NoDate == [ok |-> FALSE, y |-> 0, m |-> 0, d |-> 0]

\* The directive %d: 3[0-1] | [1-2]\d | 0[1-9] | [1-9] | " "[1-9]
DayToken(tok) ==
    \/ Len(tok) = 1 /\ IsDigit(tok[1]) /\ tok[1] # "0"
    \/ /\ Len(tok) = 2
       /\ \/ tok[1] = " " /\ IsDigit(tok[2]) /\ tok[2] # "0"
          \/ /\ AllDigits(tok)
             /\ DigitsToNat(tok) >= 1
             /\ DigitsToNat(tok) <= 31

\* The directive %m: 1[0-2] | 0[1-9] | [1-9]
MonthToken(tok) ==
    \/ Len(tok) = 1 /\ IsDigit(tok[1]) /\ tok[1] # "0"
    \/ Len(tok) = 2 /\ AllDigits(tok) /\ DigitsToNat(tok) >= 1 /\ DigitsToNat(tok) <= 12

\* The directive %Y: \d\d\d\d
YearToken(tok) == Len(tok) = 4 /\ AllDigits(tok)

IsLeap(y) == (y % 4 = 0 /\ y % 100 # 0) \/ y % 400 = 0

DaysInMonth(y, m) ==
    CASE m = 2 -> IF IsLeap(y) THEN 29 ELSE 28
      [] m \in {4, 6, 9, 11} -> 30
      [] OTHER -> 31

\* The date of three matched tokens; datetime rejects year 0 and a day that
\* the month does not have.
MakeDate(ytok, mtok, dtok) ==
    IF YearToken(ytok) /\ MonthToken(mtok) /\ DayToken(dtok)
    THEN LET y == DigitsToNat(ytok)
             m == DigitsToNat(mtok)
             d == DigitsToNat(LStrip(dtok))
         IN IF y >= 1 /\ d <= DaysInMonth(y, m)
            THEN [ok |-> TRUE, y |-> y, m |-> m, d |-> d]
            ELSE NoDate
    ELSE NoDate

\* The three fields of chars around the separator sep; the last field is all
\* that follows the second separator.
Fields(chars, sep) ==
    LET i == IndexOf(chars, sep)
        rest == SubSeq(chars, i + 1, Len(chars))
        j == IndexOf(rest, sep)
    IN IF i = 0 \/ j = 0 THEN <<>>
       ELSE << SubSeq(chars, 1, i - 1),
               SubSeq(rest, 1, j - 1),
               SubSeq(rest, j + 1, Len(rest)) >>

\* datetime.strptime(chars, "%d/%m/%Y"); ok = FALSE stands for ValueError.
StrptimeDMY(chars) ==
    LET f == Fields(chars, "/")
    IN IF f = <<>> THEN NoDate ELSE MakeDate(f[3], f[2], f[1])

\* datetime.strptime(chars, "%Y-%m-%d")
StrptimeYMD(chars) ==
    LET f == Fields(chars, "-")
    IN IF f = <<>> THEN NoDate ELSE MakeDate(f[1], f[2], f[3])

\* date.strftime("%Y-%m-%d"); the C library does not pad the year.
StrftimeYMD(date) ==
    NatToDigits(date.y) \o <<"-">> \o Pad2(date.m) \o <<"-">> \o Pad2(date.d)

----------------------------------------------------------------------------
(* format_date *)

\* Lines 18-28: a falsy value gives None; strptime raises TypeError for a
\* value that is not a string, and only ValueError is caught.
format_date(value) ==
    IF ~Truthy(value) THEN NoneV
    ELSE IF value.t # "str" THEN Raise("TypeError")
    ELSE IF StrptimeDMY(value.s).ok
         THEN StrV(StrftimeYMD(StrptimeDMY(value.s)))
         ELSE IF StrptimeYMD(value.s).ok THEN value ELSE NoneV

----------------------------------------------------------------------------
(* int(value), float(value) *)

RECURSIVE Pow10(_)
Pow10(x) == IF x = 0 THEN 1 ELSE 10 * Pow10(x - 1)

\* A numeral without its optional sign.
Unsigned(chars) ==
    IF chars # <<>> /\ chars[1] \in {"-", "+"} THEN Tail(chars) ELSE chars

Negative(chars) == chars # <<>> /\ chars[1] = "-"

PyInt(value) ==
    CASE value.t = "int" -> value
      [] value.t = "str" ->
            LET body == Strip(value.s)
                digits == Unsigned(body)
            IN IF digits # <<>> /\ AllDigits(digits)
               THEN IntV(IF Negative(body) THEN 0 - DigitsToNat(digits)
                         ELSE DigitsToNat(digits))
               ELSE Raise("ValueError")
      [] value.t = "float" ->
            IF value.n >= 0 THEN IntV(value.n \div Pow10(value.e))
            ELSE IntV(0 - ((0 - value.n) \div Pow10(value.e)))
      [] value.t = "nan" -> Raise("ValueError")
      [] OTHER -> Raise("TypeError")

\* The decimal k / 10^x with trailing zeros of the fraction removed.
RECURSIVE Normal(_, _)
Normal(k, x) ==
    IF x > 0 /\ k % 10 = 0 THEN Normal(k \div 10, x - 1) ELSE FloatV(k, x)

PyFloat(value) ==
    CASE value.t = "int" -> FloatV(value.n, 0)
      [] value.t = "str" ->
            LET body == Strip(value.s)
                num == Unsigned(body)
                dot == IndexOf(num, ".")
                whole == IF dot = 0 THEN num ELSE SubSeq(num, 1, dot - 1)
                frac == IF dot = 0 THEN <<>> ELSE SubSeq(num, dot + 1, Len(num))
                mag == DigitsToNat(whole \o frac)
            IN IF num = <<"n", "a", "n">> THEN NaNV
               ELSE IF whole \o frac # <<>> /\ AllDigits(whole \o frac)
               THEN Normal(IF Negative(body) THEN 0 - mag ELSE mag, Len(frac))
               ELSE Raise("ValueError")
      [] value.t = "float" -> value
      [] value.t = "nan" -> value
      [] OTHER -> Raise("TypeError")

\* value in [None, 'nan', '']
IsNullLike(value) ==
    \/ value.t = "none"
    \/ value.t = "str" /\ value.s \in {<<>>, <<"n", "a", "n">>}

int_coerce_zero_for_null(value) ==
    IF IsNullLike(value) THEN IntV(0) ELSE PyInt(value)

int_coerce(value) == IF IsNullLike(value) THEN NoneV ELSE PyInt(value)

decimal_coerce(value) == IF IsNullLike(value) THEN NoneV ELSE PyFloat(value)

----------------------------------------------------------------------------
(* Column types and the row transformer of process_target_table *)

UpperChars == <<"A", "B", "C", "D", "E", "F", "G", "H", "I", "J", "K", "L", "M",
                "N", "O", "P", "Q", "R", "S", "T", "U", "V", "W", "X", "Y", "Z">>
LowerChars == <<"a", "b", "c", "d", "e", "f", "g", "h", "i", "j", "k", "l", "m",
                "n", "o", "p", "q", "r", "s", "t", "u", "v", "w", "x", "y", "z">>

\* str.lower()
Lower(chars) ==
    [i \in 1..Len(chars) |->
        IF \E k \in 1..Len(UpperChars) : UpperChars[k] = chars[i]
        THEN LowerChars[CHOOSE k \in 1..Len(UpperChars) : UpperChars[k] = chars[i]]
        ELSE chars[i]]

\* sub in chars
Contains(chars, sub) ==
    \E i \in 0..(Len(chars) - Len(sub)) : SubSeq(chars, i + 1, i + Len(sub)) = sub

\* repr of the float n / 10^e
FloatToChars(n, e) ==
    LET abs == IF n < 0 THEN -n ELSE n
        raw == NatToDigits(abs)
        digits == [i \in 1..(e + 1 - Len(raw)) |-> "0"] \o raw
        whole == SubSeq(digits, 1, Len(digits) - e)
        frac == IF e = 0 THEN <<"0">>
                ELSE SubSeq(digits, Len(digits) - e + 1, Len(digits))
    IN (IF n < 0 THEN <<"-">> ELSE <<>>) \o whole \o <<".">> \o frac

\* str(value)
PyStr(value) ==
    CASE value.t = "str" -> value.s
      [] value.t = "int" -> IntToChars(value.n)
      [] value.t = "float" -> FloatToChars(value.n, value.e)
      [] value.t = "nan" -> <<"n", "a", "n">>
      [] OTHER -> <<"N", "o", "n", "e">>

\* eval(transformation_logic, {"source": source}) for the expressions of the
\* model; the globals dict has no "__builtins__" key, so eval adds the
\* builtins and int and len resolve.
EvalLogic(transformation_logic, source) ==
    CASE transformation_logic = "source" -> StrV(source)
      [] transformation_logic = "source.strip()" -> StrV(Strip(source))
      [] transformation_logic = "int(source)" -> PyInt(StrV(source))
      [] transformation_logic = "len(source)" -> IntV(Len(source))
      [] transformation_logic = "None" -> NoneV
      [] transformation_logic = "1/0" -> Raise("ZeroDivisionError")
      [] OTHER -> Raise("NameError")

\* Lines 98-104: the transformed value, None when the evaluation raises.
transform_keeps_eval_error(transformation_logic, value) ==
    IF transformation_logic # ""
    THEN EvalLogic(transformation_logic,
                   IF value.t # "none" THEN PyStr(value) ELSE <<>>)
    ELSE value

apply_transformation(transformation_logic, value) ==
    IF transformation_logic # ""
    THEN LET r == EvalLogic(transformation_logic,
                            IF value.t # "none" THEN PyStr(value) ELSE <<>>)
         IN IF IsRaise(r) THEN NoneV ELSE r
    ELSE value

\* Lines 107-114: coercion by the declared type of the target column.
coerce_column(column_type, value) ==
    LET t == Lower(column_type)
    IN IF Contains(t, <<"d", "a", "t", "e">>) THEN format_date(value)
       ELSE IF Contains(t, <<"i", "n", "t">>) THEN int_coerce(value)
       ELSE IF Contains(t, <<"d", "e", "c", "i", "m", "a", "l">>)
       THEN decimal_coerce(value)
       ELSE value

\* A dict is the sequence of its items, in insertion order.
DictKeys(d) == {d[i].k : i \in 1..Len(d)}

DictGet(d, key) == d[CHOOSE i \in 1..Len(d) : d[i].k = key].v

DictSet(d, key, val) ==
    IF key \in DictKeys(d)
    THEN [i \in 1..Len(d) |-> IF d[i].k = key THEN [k |-> key, v |-> val] ELSE d[i]]
    ELSE Append(d, [k |-> key, v |-> val])

\* One iteration of the loop over valid_mappings (lines 92-116): the value of
\* the mapping's target column, or the exception the coercion raised.
mapped_value(mapping, row, table_columns) ==
    LET value == apply_transformation(mapping.transformation_logic,
                    IF mapping.source_column \in DOMAIN row
                    THEN row[mapping.source_column] ELSE NoneV)
    IN IF mapping.target_column \in DOMAIN table_columns
       THEN coerce_column(table_columns[mapping.target_column], value)
       ELSE value

\* Lines 90-116: transformed_data after the first k mappings; err names the
\* exception that left the loop, "" when none did.
RECURSIVE transformed_data(_, _, _, _)
transformed_data(valid_mappings, k, row, table_columns) ==
    IF k = 0 THEN [err |-> "", data |-> <<>>]
    ELSE LET before == transformed_data(valid_mappings, k - 1, row, table_columns)
             v == mapped_value(valid_mappings[k], row, table_columns)
         IN IF before.err # "" THEN before
            ELSE IF IsRaise(v) THEN [err |-> v.s[1], data |-> before.data]
            ELSE [err |-> "",
                  data |-> DictSet(before.data, valid_mappings[k].target_column, v)]

\* Lines 119-122
matched_columns_unfiltered(data, table_columns) == data

matched_columns(data, table_columns) ==
    SelectSeq(data, LAMBDA item : item.k \in DOMAIN table_columns)

ErrNoMatch == "No matching columns between source and target table"

\* Lines 89-125: the row to insert, or the error that fails the row before
\* any statement is sent.
transform_row_accepts_empty(row, valid_mappings, table_columns) ==
    LET t == transformed_data(valid_mappings, Len(valid_mappings), row, table_columns)
    IN IF t.err # "" THEN [err |-> t.err, cols |-> <<>>]
       ELSE [err |-> "", cols |-> matched_columns(t.data, table_columns)]

transform_row(row, valid_mappings, table_columns) ==
    LET t == transformed_data(valid_mappings, Len(valid_mappings), row, table_columns)
        m == matched_columns(t.data, table_columns)
    IN IF t.err # "" THEN [err |-> t.err, cols |-> <<>>]
       ELSE IF m = <<>> THEN [err |-> ErrNoMatch, cols |-> <<>>]
       ELSE [err |-> "", cols |-> m]

----------------------------------------------------------------------------
(* The data the model draws from *)

MaxMappings == 2    \* rows of mapping_table
MaxRows == 2        \* rows the source query returns

TypeInt == <<"i", "n", "t", "(", "1", "1", ")">>
TypeDate == <<"d", "a", "t", "e">>
TypeDecimal == <<"d", "e", "c", "i", "m", "a", "l", "(", "1", "0", ",", "2", ")">>
TypeVarchar == <<"v", "a", "r", "c", "h", "a", "r", "(", "2", "5", "5", ")">>

\* DESCRIBE of the target table: Field -> Type.
FullSchema ==
    [c \in {"amount", "dob", "price", "name"} |->
        CASE c = "amount" -> TypeInt
          [] c = "dob" -> TypeDate
          [] c = "price" -> TypeDecimal
          [] OTHER -> TypeVarchar]

Restrict(f, S) == [c \in S |-> f[c]]

TargetSchemas ==
    { Restrict(FullSchema, S) : S \in {{"amount", "dob", "price", "name"}, {"amount"}} }

\* DESCRIBE of the source table.
SourceTableColumns == {"a", "b"}

Mapping(sc, tc, logic, tt) ==
    [source_column |-> sc, target_column |-> tc, transformation_logic |-> logic,
     source_table |-> "src", target_table |-> tt]

MappingRows ==
    { Mapping("a", "amount", "", "T"),
      Mapping("a", "price", "source.strip()", "T"),
      Mapping("b", "name", "1/0", "T"),
      Mapping("b", "dob", "", "T"),
      Mapping("b", "amount", "len(source)", "T"),
      Mapping("a", "ghost", "", "T"),
      Mapping("zz", "dob", "", "T"),
      Mapping("b", "", "", "T"),
      Mapping("a", "amount", "", "U") }

SeqsUpTo(S, k) == UNION { [1..j -> S] : j \in 0..k }

MappingTables == SeqsUpTo(MappingRows, MaxMappings)

V42 == StrV(<<"4", "2">>)
Vabc == StrV(<<"a", "b", "c">>)
Vdate == StrV(<<"2", "5", "/", "1", "2", "/", "2", "0", "2", "4">>)
Vpadded == StrV(<<" ", "7", " ">>)

\* Values of the cells of source rows: None, strings and integers.
BatchValues == {V42, Vabc}
SourceValues == {V42, Vabc, Vdate, Vpadded, StrV(<<>>), NoneV, IntV(7)}

\* What the source query may return for the projected columns: batches of up
\* to MaxRows rows, each holding one of BatchValues in every column, and
\* single rows over SourceValues.
SourceResults(columns) ==
    SeqsUpTo({[c \in columns |-> v] : v \in BatchValues}, MaxRows)
    \cup { <<r>> : r \in [columns -> SourceValues] }

TypeDateTime == <<"d", "a", "t", "e", "t", "i", "m", "e">>
TypeBigInt == <<"b", "i", "g", "i", "n", "t", "(", "2", "0", ")">>

ColumnTypes == {TypeInt, TypeBigInt, TypeDate, TypeDateTime, TypeDecimal, TypeVarchar}

DayTokens ==
    { <<"1">>, <<"0", "1">>, <<"2", "5">>, <<"2", "9">>, <<"3", "1">>, <<"3", "2">>,
      <<" ", "5">>, <<"0">>, <<"4", "0">> }
MonthTokens == { <<"2">>, <<"0", "2">>, <<"1", "2">>, <<"1", "3">>, <<"0", "0">> }
YearTokens == { <<"2", "0", "2", "4">>, <<"2", "0", "2", "3">>, <<"2", "4">> }

\* Strings of three numeric fields, day first or year first, around "/" or "-".
DateStrings ==
    { d \o <<sep>> \o m \o <<sep>> \o y :
        d \in DayTokens, m \in MonthTokens, y \in YearTokens, sep \in {"/", "-"} }
    \cup
    { y \o <<sep>> \o m \o <<sep>> \o d :
        d \in DayTokens, m \in MonthTokens, y \in YearTokens, sep \in {"/", "-"} }

\* Numerals and other strings; none has an exponent or spells inf.
NumberStrings ==
    { <<"4", "2">>, <<"0">>, <<"0", "0", "7">>, <<" ", "4", "2", " ">>, <<"-", "5">>,
      <<"+", "3">>, <<"4", ".", "5">>, <<"4", ".", "5", "0">>, <<".", "5">>, <<"5", ".">>,
      <<".">>, <<"-">>, <<" ">>, <<>>, <<"n", "a", "n">>, <<" ", "n", "a", "n">>,
      <<"a", "b", "c">>, <<"1", "2", "3", "4", "5">> }

CoerceValues ==
    { StrV(chars) : chars \in DateStrings \cup NumberStrings }
    \cup { NoneV, IntV(0), IntV(7), IntV(-3), IntV(20241225) }

----------------------------------------------------------------------------
(* State *)

VARIABLES
    op,                 \* the operation this request entered
    args,               \* its arguments
    mapping_table,      \* database: the rows of mapping_table
    target_rows,        \* database: the committed rows of the target table
    db_log,             \* statements executed on the processor's connection
    p_pc,               \* process_target_table: position
    p_connection,       \* ... connection: "unbound", "None", "open", "closed"
    p_cursor,           \* ... cursor: "unbound", "open", "closed"
    table_columns,      \* ... table_columns
    mappings,           \* ... mappings
    valid_mappings,     \* ... valid_mappings
    source_data,        \* ... source_data
    row_index,          \* ... rows of source_data the loop has finished
    insert_count,       \* ... insert_count
    failed_rows,        \* ... failed_rows
    p_pending,          \* ... rows inserted and not yet committed
    p_result,           \* ... what the call returned or raised
    scheduler_details,  \* database: the rows of scheduler_details
    s_pc,               \* schedule_processing: position
    s_connection,       \* ... connection
    s_cursor,           \* ... cursor
    s_inserted,         \* ... position in scheduler_details of the row it inserted
    s_result,           \* ... what the call returned or raised
    c_pc,               \* a coercion applied on its own: position
    c_type,             \* ... the declared type of the target column
    c_value,            \* ... the value to coerce
    c_result,           \* ... the coerced value, or the exception
    n_pc,               \* lines 17-19 on their own: position
    n_name,             \* ... file_path
    n_once,             \* ... the table_name made of it
    n_twice,            \* ... the table_name made of that table_name
    file_path,          \* the loaders: the path of the uploaded spreadsheet
    df,                 \* ... what pd.read_excel gives for it
    u_pc,               \* ... position
    u_connection,       \* ... connection
    u_cursor,           \* ... cursor
    u_mappings,         \* ... mappings
    u_columns,          \* ... usable_columns / valid_mappings
    u_index,            \* ... rows of the sheet the loop has finished
    inserted_count,     \* ... inserted_count / inserted_rows
    errors,             \* ... errors
    u_pending,          \* ... rows inserted and not yet committed
    table_name,         \* ... upload_data_with_mapping: table_name
    u_created,          \* database: whether the table of that name exists
    loaded_rows,        \* database: the committed rows of the table loaded
    u_result            \* ... what the call returned or raised

p_vars == << db_log, p_pc, p_connection, p_cursor, table_columns, mappings,
             valid_mappings, source_data, row_index, insert_count, failed_rows,
             p_pending, p_result >>

s_vars == << scheduler_details, s_pc, s_connection, s_cursor, s_inserted, s_result >>

n_vars == << n_pc, n_name, n_once, n_twice >>

c_vars == << c_pc, c_type, c_value, c_result, n_vars >>

u_vars == << file_path, df, u_pc, u_connection, u_cursor, u_mappings, u_columns,
             u_index, inserted_count, errors, u_pending, table_name, u_created,
             loaded_rows, u_result >>

vars == << op, args, mapping_table, target_rows, p_vars, s_vars, c_vars, u_vars >>

NoResult == [kind |-> "none", msg |-> "", inserted |-> 0, failed_rows |-> <<>>,
             details |-> <<>>]

\* {"error": str(e)}
ErrorResult(msg) == [NoResult EXCEPT !.kind = "error", !.msg = msg]

\* The call raised instead of returning.
Raised(exc) == [NoResult EXCEPT !.kind = "raise", !.msg = exc]

\* {"message": f"{insert_count} rows inserted into ...", "failed_rows": failed_rows}
SuccessResult(count, failed) ==
    [NoResult EXCEPT !.kind = "success", !.inserted = count, !.failed_rows = failed]

ErrConnect == "Failed to connect to database"
ErrNoMappings == "No mappings found for target table"
ErrNoTable == "Table doesn't exist"
ErrSyntax == "You have an error in your SQL syntax"
ErrUnknownColumn == "Unknown column 'column_name' in 'where clause'"
ErrInsert == "insert rejected by the database"

\* A statement sent on the processor's connection: its kind, the source row
\* it is for (0 when for none), the columns it writes, and whether the
\* database executed it.
Stmt(kind, row, cols, ok) == [stmt |-> kind, row |-> row, cols |-> cols, ok |-> ok]

EmptyFn == [c \in {} |-> NoneV]

PInitLocals ==
    /\ db_log = <<>>
    /\ p_connection = "unbound"
    /\ p_cursor = "unbound"
    /\ table_columns = EmptyFn
    /\ mappings = <<>>
    /\ valid_mappings = <<>>
    /\ source_data = <<>>
    /\ row_index = 0
    /\ insert_count = 0
    /\ failed_rows = <<>>
    /\ p_pending = <<>>
    /\ p_result = NoResult

NInitLocals ==
    /\ n_pc = "idle"
    /\ n_name = <<>>
    /\ n_once = <<>>
    /\ n_twice = <<>>

CInitLocals ==
    /\ c_pc = "idle"
    /\ c_type = <<>>
    /\ c_value = NoneV
    /\ c_result = NoneV
    /\ NInitLocals

NoSheet == [ok |-> FALSE, columns |-> <<>>, rows |-> <<>>]

NoUpload == [kind |-> "none", error |-> "", status |-> "", total_rows |-> 0,
             inserted_rows |-> 0, errors |-> <<>>, columns |-> <<>>,
             missing_columns |-> <<>>, table_name |-> <<>>, total_in_mapping |-> 0,
             total_mapped |-> 0]

UInitLocals ==
    /\ u_connection = "unbound"
    /\ u_cursor = "unbound"
    /\ u_mappings = <<>>
    /\ u_columns = <<>>
    /\ u_index = 0
    /\ inserted_count = 0
    /\ errors = <<>>
    /\ u_pending = <<>>
    /\ table_name = <<>>
    /\ u_result = NoUpload

\* No loader is running.
UIdle ==
    /\ file_path = <<>>
    /\ df = NoSheet
    /\ u_pc = "idle"
    /\ u_created = FALSE
    /\ loaded_rows = <<>>
    /\ UInitLocals

SInitLocals ==
    /\ s_connection = "unbound"
    /\ s_cursor = "unbound"
    /\ s_inserted = 0
    /\ s_result = NoResult

\* start_date and end_date are "" when not given.
CallArgs(name) ==
    [target_table : {"T"}, start_date : {"", "2024-01-01"},
     end_date : {"", "2024-12-31"}, scheduler_name : {name}]

\* Neither the processor nor the recorder is running.
Idle ==
    /\ args \in CallArgs("")
    /\ args.start_date = ""
    /\ args.end_date = ""
    /\ p_pc = "idle"
    /\ PInitLocals
    /\ scheduler_details = <<>>
    /\ s_pc = "idle"
    /\ SInitLocals

\* A request process_target_table(target_table, start_date, end_date).
InitProcess ==
    /\ op = "process_target_table"
    /\ args \in CallArgs("")
    /\ mapping_table \in MappingTables
    /\ target_rows = <<>>
    /\ p_pc = "connect"
    /\ PInitLocals
    /\ scheduler_details = <<>>
    /\ s_pc = "idle"
    /\ SInitLocals
    /\ CInitLocals
    /\ UIdle

Run(name, status, ended) ==
    [scheduler_name |-> name, status |-> status, end_date_time |-> ended,
     target_table |-> "T"]

\* scheduler_details as earlier requests may have left it.
EarlierRuns ==
    { <<>>,
      <<Run("nightly", "Completed", "2024-06-01 00:00:00")>>,
      <<Run("weekly", "Scheduled", "")>> }

\* A request schedule_processing(scheduler_name, cron_expression, target_table,
\* start_date, end_date, process_logic); cron_expression and process_logic
\* are stored and not read again.
InitSchedule ==
    /\ op = "schedule_processing"
    /\ args \in CallArgs("nightly")
    /\ mapping_table \in SeqsUpTo(MappingRows, 1)
    /\ target_rows = <<>>
    /\ p_pc = "idle"
    /\ PInitLocals
    /\ scheduler_details \in EarlierRuns
    /\ s_pc = "connect"
    /\ SInitLocals
    /\ CInitLocals
    /\ UIdle

----------------------------------------------------------------------------
(* process_target_table *)

\* An exception inside the outer try: the handler of lines 143-145 turns it
\* into the error result, and the finally clause follows.
PFail(msg) ==
    /\ p_result' = ErrorResult(msg)
    /\ p_pc' = "finally"

\* Lines 41-45
P_Connect ==
    /\ p_pc = "connect"
    /\ \E connected \in BOOLEAN :
          IF connected
          THEN /\ p_connection' = "open"
               /\ p_cursor' = "open"
               /\ p_pc' = "describe_target"
               /\ UNCHANGED p_result
          ELSE /\ p_connection' = "None"
               /\ p_cursor' = p_cursor
               /\ PFail(ErrConnect)
    /\ UNCHANGED << s_vars, c_vars, u_vars >>
    /\ UNCHANGED << op, args, mapping_table, target_rows, db_log, table_columns,
                    mappings, valid_mappings, source_data, row_index,
                    insert_count, failed_rows, p_pending >>

\* Lines 48-49
P_DescribeTarget ==
    /\ p_pc = "describe_target"
    /\ \/ \E schema \in TargetSchemas :
             /\ db_log' = Append(db_log, Stmt("DESCRIBE target", 0, <<>>, TRUE))
             /\ table_columns' = schema
             /\ p_pc' = "load_mappings"
             /\ UNCHANGED p_result
       \/ /\ db_log' = Append(db_log, Stmt("DESCRIBE target", 0, <<>>, FALSE))
          /\ PFail(ErrNoTable)
          /\ UNCHANGED table_columns
    /\ UNCHANGED << s_vars, c_vars, u_vars >>
    /\ UNCHANGED << op, args, mapping_table, target_rows, p_connection, p_cursor,
                    mappings, valid_mappings, source_data, row_index,
                    insert_count, failed_rows, p_pending >>

\* Lines 51-57: SELECT ... FROM mapping_table WHERE target_table = %s
select_mappings_any_target(table, target) == table

select_mappings(table, target) ==
    SelectSeq(table, LAMBDA m : m.target_table = target)

\* Lines 51-60
P_LoadMappings ==
    /\ p_pc = "load_mappings"
    /\ db_log' = Append(db_log, Stmt("SELECT mapping_table", 0, <<>>, TRUE))
    /\ mappings' = select_mappings(mapping_table, args.target_table)
    /\ IF mappings' = <<>>
       THEN PFail(ErrNoMappings)
       ELSE p_pc' = "describe_source" /\ UNCHANGED p_result
    /\ UNCHANGED << s_vars, c_vars, u_vars >>
    /\ UNCHANGED << op, args, mapping_table, target_rows, p_connection, p_cursor,
                    table_columns, valid_mappings, source_data, row_index,
                    insert_count, failed_rows, p_pending >>

\* Lines 66-68
filter_valid_mappings(ms, source_table_columns) ==
    SelectSeq(ms, LAMBDA m : m.source_column \in source_table_columns
                             /\ m.target_column # "")

\* Lines 62-68
P_DescribeSource ==
    /\ p_pc = "describe_source"
    /\ \/ /\ db_log' = Append(db_log, Stmt("DESCRIBE source", 0, <<>>, TRUE))
          /\ valid_mappings' = filter_valid_mappings(mappings, SourceTableColumns)
          /\ p_pc' = "query"
          /\ UNCHANGED p_result
       \/ /\ db_log' = Append(db_log, Stmt("DESCRIBE source", 0, <<>>, FALSE))
          /\ PFail(ErrNoTable)
          /\ UNCHANGED valid_mappings
    /\ UNCHANGED << s_vars, c_vars, u_vars >>
    /\ UNCHANGED << op, args, mapping_table, target_rows, p_connection, p_cursor,
                    table_columns, mappings, source_data, row_index,
                    insert_count, failed_rows, p_pending >>

\* Line 70: the columns of the projection.
source_columns(vms) == {vms[i].source_column : i \in 1..Len(vms)}

\* Lines 73-77: the conditions of the date filter, each as the column it
\* names and its bound.
conditions(start_date, end_date) ==
    (IF start_date # "" THEN <<[k |-> "column_name", v |-> <<">=", start_date>>]>>
     ELSE <<>>)
    \o (IF end_date # "" THEN <<[k |-> "column_name", v |-> <<"<=", end_date>>]>>
        ELSE <<>>)

\* Lines 70-83.  An empty projection is a syntax error; a condition on a
\* column the source table lacks is an unknown-column error.  The statement
\* is logged with its conditions.
P_Query ==
    /\ p_pc = "query"
    /\ LET where == conditions(args.start_date, args.end_date)
       IN IF source_columns(valid_mappings) = {}
          THEN /\ db_log' = Append(db_log, Stmt("SELECT source", 0, where, FALSE))
               /\ PFail(ErrSyntax)
               /\ UNCHANGED source_data
          ELSE IF ~(DictKeys(where) \subseteq SourceTableColumns)
          THEN /\ db_log' = Append(db_log, Stmt("SELECT source", 0, where, FALSE))
               /\ PFail(ErrUnknownColumn)
               /\ UNCHANGED source_data
          ELSE /\ db_log' = Append(db_log, Stmt("SELECT source", 0, where, TRUE))
               /\ \E rows \in SourceResults(source_columns(valid_mappings)) :
                     source_data' = rows
               /\ p_pc' = "loop"
               /\ UNCHANGED p_result
    /\ UNCHANGED << s_vars, c_vars, u_vars >>
    /\ UNCHANGED << op, args, mapping_table, target_rows, p_connection, p_cursor,
                    table_columns, mappings, valid_mappings, row_index,
                    insert_count, failed_rows, p_pending >>

FailedRow(i, row, msg) == [index |-> i, row |-> row, error |-> msg]

\* Lines 88-134: one iteration of the row loop.  A row whose transformation
\* raises sends no statement; an INSERT the database rejects raises too, and
\* the handler of lines 133-134 records either.
P_Row_stops_at_failure ==
    /\ p_pc = "loop"
    /\ row_index < Len(source_data)
    /\ LET i == row_index + 1
           row == source_data[i]
           t == transform_row(row, valid_mappings, table_columns)
       IN /\ row_index' = i
          /\ IF t.err # ""
             THEN /\ PFail(t.err)
                  /\ UNCHANGED << db_log, insert_count, p_pending, failed_rows >>
             ELSE /\ db_log' = Append(db_log, Stmt("INSERT", i, t.cols, TRUE))
                  /\ p_pending' = Append(p_pending, t.cols)
                  /\ insert_count' = insert_count + 1
                  /\ UNCHANGED << failed_rows, p_pc, p_result >>
    /\ UNCHANGED << s_vars, c_vars, u_vars >>
    /\ UNCHANGED << op, args, mapping_table, target_rows, p_connection,
                    p_cursor, table_columns, mappings, valid_mappings,
                    source_data >>

P_Row ==
    /\ p_pc = "loop"
    /\ row_index < Len(source_data)
    /\ LET i == row_index + 1
           row == source_data[i]
           t == transform_row(row, valid_mappings, table_columns)
       IN /\ row_index' = i
          /\ IF t.err # ""
             THEN /\ failed_rows' = Append(failed_rows, FailedRow(i, row, t.err))
                  /\ UNCHANGED << db_log, insert_count, p_pending >>
             ELSE \E accepted \in BOOLEAN :
                     /\ db_log' = Append(db_log, Stmt("INSERT", i, t.cols, accepted))
                     /\ IF accepted
                        THEN /\ p_pending' = Append(p_pending, t.cols)
                             /\ insert_count' = insert_count + 1
                             /\ UNCHANGED failed_rows
                        ELSE /\ failed_rows' =
                                    Append(failed_rows, FailedRow(i, row, ErrInsert))
                             /\ UNCHANGED << insert_count, p_pending >>
    /\ UNCHANGED << s_vars, c_vars, u_vars >>
    /\ UNCHANGED << op, args, mapping_table, target_rows, p_pc, p_connection,
                    p_cursor, table_columns, mappings, valid_mappings,
                    source_data, p_result >>

P_Commit_skipped ==
    /\ p_pc = "loop"
    /\ row_index = Len(source_data)
    /\ p_result' = SuccessResult(insert_count, failed_rows)
    /\ p_pc' = "finally"
    /\ UNCHANGED << s_vars, c_vars, u_vars >>
    /\ UNCHANGED << op, args, mapping_table, target_rows, db_log, p_pending,
                    p_connection, p_cursor, table_columns, mappings,
                    valid_mappings, source_data, row_index, insert_count,
                    failed_rows >>

\* Lines 136-141
P_Commit ==
    /\ p_pc = "loop"
    /\ row_index = Len(source_data)
    /\ db_log' = Append(db_log, Stmt("COMMIT", 0, <<>>, TRUE))
    /\ target_rows' = target_rows \o p_pending
    /\ p_pending' = <<>>
    /\ p_result' = SuccessResult(insert_count, failed_rows)
    /\ p_pc' = "finally"
    /\ UNCHANGED << s_vars, c_vars, u_vars >>
    /\ UNCHANGED << op, args, mapping_table, p_connection, p_cursor,
                    table_columns, mappings, valid_mappings, source_data,
                    row_index, insert_count, failed_rows >>

\* Lines 147-151.  `connection` is always bound; when it is None,
\* connection.is_connected() raises AttributeError, which replaces the
\* return value.  Closing discards what was not committed.
P_Finally ==
    /\ p_pc = "finally"
    /\ p_cursor' = IF p_cursor = "open" THEN "closed" ELSE p_cursor
    /\ IF p_connection = "None"
       THEN /\ p_result' = Raised("AttributeError")
            /\ UNCHANGED p_connection
       ELSE /\ p_connection' = "closed"
            /\ UNCHANGED p_result
    /\ p_pending' = <<>>
    /\ p_pc' = "done"
    /\ UNCHANGED << s_vars, c_vars, u_vars >>
    /\ UNCHANGED << op, args, mapping_table, target_rows, db_log, table_columns,
                    mappings, valid_mappings, source_data, row_index,
                    insert_count, failed_rows >>

----------------------------------------------------------------------------
(* schedule_processing *)

\* An exception inside the try: the handler of lines 208-210.
SFail(msg) ==
    /\ s_result' = ErrorResult(msg)
    /\ s_pc' = "finally"

\* Lines 168-172
S_Connect ==
    /\ s_pc = "connect"
    /\ \E connected \in BOOLEAN :
          IF connected
          THEN /\ s_connection' = "open"
               /\ s_cursor' = "open"
               /\ s_pc' = "insert"
               /\ UNCHANGED s_result
          ELSE /\ s_connection' = "None"
               /\ s_cursor' = s_cursor
               /\ SFail(ErrConnect)
    /\ UNCHANGED << c_vars, u_vars >>
    /\ UNCHANGED << op, args, mapping_table, target_rows, p_vars,
                    scheduler_details, s_inserted >>

\* Lines 173-191: the Scheduled row, committed at once.  end_date_time holds
\* the end_date argument (NULL when not given).
S_InsertRecord ==
    /\ s_pc = "insert"
    /\ scheduler_details' =
          Append(scheduler_details,
                 Run(args.scheduler_name, "Scheduled", args.end_date))
    /\ s_inserted' = Len(scheduler_details) + 1
    /\ s_pc' = "call"
    /\ UNCHANGED << c_vars, u_vars >>
    /\ UNCHANGED << op, args, mapping_table, target_rows, p_vars,
                    s_connection, s_cursor, s_result >>

\* Line 193: the call of process_target_table starts.
S_Call ==
    /\ s_pc = "call"
    /\ p_pc = "idle"
    /\ p_pc' = "connect"
    /\ s_pc' = "processing"
    /\ UNCHANGED << c_vars, u_vars >>
    /\ UNCHANGED << op, args, mapping_table, target_rows, db_log, p_connection,
                    p_cursor, table_columns, mappings, valid_mappings,
                    source_data, row_index, insert_count, failed_rows,
                    p_pending, p_result, scheduler_details, s_connection,
                    s_cursor, s_inserted, s_result >>

Now == "now"

\* Lines 195-200: UPDATE scheduler_details SET status = 'Completed',
\* end_date_time = %s WHERE scheduler_name = %s
update_completed_skipped(details, name, inserted) == details

update_completed(details, name, inserted) ==
    [i \in 1..Len(details) |->
        IF details[i].scheduler_name = name
        THEN [details[i] EXCEPT !.status = "Completed", !.end_date_time = Now]
        ELSE details[i]]

\* Lines 193-206: process_target_table has returned or raised.
S_Update ==
    /\ s_pc = "processing"
    /\ p_pc = "done"
    /\ IF p_result.kind = "raise"
       THEN /\ SFail(p_result.msg)
            /\ UNCHANGED scheduler_details
       ELSE /\ scheduler_details' =
                  update_completed(scheduler_details, args.scheduler_name, s_inserted)
            /\ s_result' = [NoResult EXCEPT !.kind = "success",
                                            !.details = <<p_result>>]
            /\ s_pc' = "finally"
    /\ UNCHANGED << c_vars, u_vars >>
    /\ UNCHANGED << op, args, mapping_table, target_rows, p_vars,
                    s_connection, s_cursor, s_inserted >>

\* Lines 212-216
S_Finally ==
    /\ s_pc = "finally"
    /\ s_cursor' = IF s_cursor = "open" THEN "closed" ELSE s_cursor
    /\ IF s_connection = "None"
       THEN /\ s_result' = Raised("AttributeError")
            /\ UNCHANGED s_connection
       ELSE /\ s_connection' = "closed"
            /\ UNCHANGED s_result
    /\ s_pc' = "done"
    /\ UNCHANGED << c_vars, u_vars >>
    /\ UNCHANGED << op, args, mapping_table, target_rows, p_vars,
                    scheduler_details, s_inserted >>

----------------------------------------------------------------------------
(* The spreadsheet loaders: what they read *)

MaxSheetRows == 2

Range(seq) == {seq[i] : i \in 1..Len(seq)}

\* The orders in which a list can be made of a set.
Orderings(S) ==
    {seq \in [1..Cardinality(S) -> S] : \A i, j \in 1..Cardinality(S) :
                                            seq[i] = seq[j] => i = j}

\* A sheet pd.read_excel could read: its columns, and its rows by column.
Sheet(columns, rows) == [ok |-> TRUE, columns |-> columns, rows |-> rows]

Sheets(columns, rows) == {Sheet(columns, r) : r \in SeqsUpTo(rows, MaxSheetRows)}

\* An empty cell reads as NaN.
Cells(columns, value, empty) ==
    [c \in columns |-> IF c \in empty THEN NaNV ELSE value]

\* The error the loaders report for a failure that is not one of their own
\* messages.
UploadError(msg, status) == [NoUpload EXCEPT !.kind = "error", !.error = msg,
                                             !.status = status]

UploadRaised(exc) == [NoUpload EXCEPT !.kind = "raise", !.error = exc]

ErrRead == "read_excel failed"
ErrKey == "KeyError: 'source_column'"

----------------------------------------------------------------------------
(* upload_mapping *)

required_columns ==
    << "tpa_id", "source_database", "source_table",
       "source_table", "target_database", "target_table",
       "target_column", "transformation_logic" >>

\* The keys of insert_data, in order.
insert_data_keys ==
    << "tpa_id", "source_database", "source_table", "source_column",
       "target_database", "target_table", "target_column",
       "transformation_logic" >>

Without(seq, names) == SelectSeq(seq, LAMBDA c : c \notin names)

MappingSheetColumns ==
    { insert_data_keys,
      Without(insert_data_keys, {"source_column"}),
      Without(insert_data_keys, {"target_table", "tpa_id"}) }

MappingSheets ==
    UNION { Sheets(columns, { Cells(Range(columns), Vabc, {}),
                              Cells(Range(columns), Vabc, {"transformation_logic"}) }) :
            columns \in MappingSheetColumns }

InitUploadMapping ==
    /\ op = "upload_mapping"
    /\ Idle
    /\ mapping_table = <<>>
    /\ target_rows = <<>>
    /\ CInitLocals
    /\ file_path = <<"m", ".", "x", "l", "s", "x">>
    /\ df \in MappingSheets \cup {NoSheet}
    /\ u_pc = "read"
    /\ u_created = FALSE
    /\ loaded_rows = <<>>
    /\ UInitLocals

\* Lines 23-38: read the sheet and validate its columns.
UM_Read ==
    /\ op = "upload_mapping"
    /\ u_pc = "read"
    /\ LET missing_columns == Without(required_columns, Range(df.columns))
       IN IF ~df.ok
          THEN /\ u_result' = UploadError(ErrRead, "error")
               /\ u_pc' = "finally"
          ELSE IF missing_columns # <<>>
          THEN /\ u_result' = [UploadError("Missing required columns", "error")
                                  EXCEPT !.missing_columns = missing_columns]
               /\ u_pc' = "finally"
          ELSE /\ u_pc' = "connect"
               /\ UNCHANGED u_result
    /\ UNCHANGED << op, args, mapping_table, target_rows, p_vars, s_vars, c_vars,
                    file_path, df, u_connection, u_cursor, u_mappings, u_columns,
                    u_index, inserted_count, errors, u_pending, table_name,
                    u_created, loaded_rows >>

\* Lines 40-66: connect, open the cursor, create mapping_table if missing.
UM_Connect ==
    /\ op = "upload_mapping"
    /\ u_pc = "connect"
    /\ \E connection \in {"None", "open"} :
          /\ u_connection' = connection
          /\ IF connection = "None"
             THEN /\ u_result' = UploadError("Database connection failed", "")
                  /\ u_pc' = "finally"
                  /\ UNCHANGED u_cursor
             ELSE /\ u_cursor' = "open"
                  /\ u_pc' = "rows"
                  /\ UNCHANGED u_result
    /\ UNCHANGED << op, args, mapping_table, target_rows, p_vars, s_vars, c_vars,
                    file_path, df, u_mappings, u_columns, u_index, inserted_count,
                    errors, u_pending, table_name, u_created, loaded_rows >>

RowError(idx, msg) == [row |-> idx, error |-> msg]

\* Lines 68-98: one row of the sheet; the insert is committed at once.  A NaN
\* parameter makes the statement fail.
UM_Row ==
    /\ op = "upload_mapping"
    /\ u_pc = "rows"
    /\ u_index < Len(df.rows)
    /\ LET idx == u_index + 1
           row == df.rows[idx]
       IN /\ u_index' = idx
          /\ IF "source_column" \notin DOMAIN row
             THEN /\ errors' = Append(errors, RowError(idx, ErrKey))
                  /\ UNCHANGED << mapping_table, inserted_count >>
             ELSE \E accepted \in BOOLEAN :
                     /\ accepted => \A c \in Range(insert_data_keys) : row[c].t # "nan"
                     /\ IF accepted
                        THEN /\ mapping_table' =
                                   Append(mapping_table,
                                          [c \in Range(insert_data_keys) |-> row[c]])
                             /\ inserted_count' = inserted_count + 1
                             /\ UNCHANGED errors
                        ELSE /\ errors' = Append(errors, RowError(idx, ErrInsert))
                             /\ UNCHANGED << mapping_table, inserted_count >>
    /\ UNCHANGED << op, args, target_rows, p_vars, s_vars, c_vars,
                    file_path, df, u_pc, u_connection, u_cursor, u_mappings,
                    u_columns, u_pending, table_name, u_created, u_result, loaded_rows >>

\* Lines 100-111
UM_Return ==
    /\ op = "upload_mapping"
    /\ u_pc = "rows"
    /\ u_index = Len(df.rows)
    /\ u_result' = [NoUpload EXCEPT
                       !.kind = "success",
                       !.total_rows = Len(df.rows),
                       !.inserted_rows = inserted_count,
                       !.errors = errors,
                       !.status = IF errors # <<>> THEN "partial_success"
                                  ELSE "success"]
    /\ u_pc' = "finally"
    /\ UNCHANGED << op, args, mapping_table, target_rows, p_vars, s_vars, c_vars,
                    file_path, df, u_connection, u_cursor, u_mappings, u_columns,
                    u_index, inserted_count, errors, u_pending, table_name,
                    u_created, loaded_rows >>

\* Lines 119-123: connection is a local from line 40 on, None included.
UM_Finally ==
    /\ op = "upload_mapping"
    /\ u_pc = "finally"
    /\ u_cursor' = IF u_cursor = "open" THEN "closed" ELSE u_cursor
    /\ CASE u_connection = "open" ->
              /\ u_connection' = "closed"
              /\ UNCHANGED u_result
         [] u_connection = "None" ->
              /\ u_result' = UploadRaised("AttributeError")
              /\ UNCHANGED u_connection
         [] OTHER -> UNCHANGED << u_connection, u_result >>
    /\ u_pending' = <<>>
    /\ u_pc' = "done"
    /\ UNCHANGED << op, args, mapping_table, target_rows, p_vars, s_vars, c_vars,
                    file_path, df, u_mappings, u_columns, u_index, inserted_count,
                    errors, table_name, u_created, loaded_rows >>

----------------------------------------------------------------------------
(* get_vidal_mappings, upload_vidal_data *)

\* str.split(sep)
RECURSIVE Split(_, _)
Split(chars, sep) ==
    LET i == IndexOf(chars, sep)
    IN IF i = 0 THEN <<chars>>
       ELSE <<SubSeq(chars, 1, i - 1)>> \o Split(SubSeq(chars, i + 1, Len(chars)), sep)

\* [col.strip() for col in target_col.split(',')] if target_col else []
target_columns_of(target_col) ==
    IF target_col = <<>> THEN <<>>
    ELSE LET parts == Split(target_col, ",")
         IN [i \in 1..Len(parts) |-> Strip(parts[i])]

\* Lines 139-144 from the row at position i on.
RECURSIVE mapping_dict(_, _, _)
mapping_dict(rows, i, dict) ==
    IF i > Len(rows) THEN dict
    ELSE mapping_dict(rows, i + 1,
            DictSet(dict, rows[i].source_column,
                    [target_columns |-> target_columns_of(rows[i].target_column),
                     transformation_logic |-> rows[i].transformation_logic]))

\* Lines 130-147: the rows of mapping_table for temp_vidal_claims, by source
\* column; a later row replaces an earlier one of the same source column.
get_vidal_mappings(table) ==
    mapping_dict(SelectSeq(table, LAMBDA m : m.target_table = "temp_vidal_claims"),
                 1, <<>>)

\* A row of mapping_table whose target_column is held as characters.
VidalMapping(sc, tc, tt) ==
    [source_column |-> sc, target_column |-> tc, transformation_logic |-> "",
     source_table |-> "claims.xlsx", target_table |-> tt]

VidalMappingRows ==
    { VidalMapping("claim_no", <<"i", "d">>, "temp_vidal_claims"),
      VidalMapping("name", <<"f", "n", ",", " ", "l", "n", " ">>, "temp_vidal_claims"),
      VidalMapping("name", <<"f", "n">>, "temp_vidal_claims"),
      VidalMapping("city", <<>>, "temp_vidal_claims"),
      VidalMapping("claim_no", <<"l", "n", ",", "i", "d">>, "temp_vidal_claims"),
      VidalMapping("claim_no", <<"i", "d">>, "T") }

VidalMappingTables == SeqsUpTo(VidalMappingRows, 2)

VidalSheets ==
    Sheets(<<"claim_no", "name">>,
           { Cells({"claim_no", "name"}, V42, {}),
             Cells({"claim_no", "name"}, Vabc, {"name"}) })
    \cup Sheets(<<"city">>, { Cells({"city"}, Vabc, {}) })

InitUploadVidal ==
    /\ op = "upload_vidal_data"
    /\ Idle
    /\ CInitLocals
    /\ mapping_table \in VidalMappingTables
    /\ target_rows = <<>>
    /\ loaded_rows = <<>>
    /\ file_path = <<"v", ".", "x", "l", "s", "x">>
    /\ df \in VidalSheets \cup {NoSheet}
    /\ u_pc = "read"
    /\ u_created = FALSE
    /\ UInitLocals

\* Lines 166-167
UV_Read ==
    /\ op = "upload_vidal_data"
    /\ u_pc = "read"
    /\ IF ~df.ok
       THEN /\ u_result' = UploadError(ErrRead, "error")
            /\ u_pc' = "finally"
       ELSE /\ u_pc' = "connect"
            /\ UNCHANGED u_result
    /\ UNCHANGED << op, args, mapping_table, target_rows, p_vars, s_vars, c_vars,
                    file_path, df, u_connection, u_cursor, u_mappings, u_columns,
                    u_index, inserted_count, errors, u_pending, table_name,
                    u_created, loaded_rows >>

\* Lines 169-173
UV_Connect ==
    /\ op = "upload_vidal_data"
    /\ u_pc = "connect"
    /\ \E connection \in {"None", "open"} :
          /\ u_connection' = connection
          /\ IF connection = "None"
             THEN /\ u_result' = UploadError("Database connection failed", "error")
                  /\ u_pc' = "finally"
                  /\ UNCHANGED u_cursor
             ELSE /\ u_cursor' = "open"
                  /\ u_pc' = "mappings"
                  /\ UNCHANGED u_result
    /\ UNCHANGED << op, args, mapping_table, target_rows, p_vars, s_vars, c_vars,
                    file_path, df, u_mappings, u_columns, u_index, inserted_count,
                    errors, u_pending, table_name, u_created, loaded_rows >>

\* Lines 175-197: the mappings and the columns of the sheet they cover.
\* usable_columns is a set: the loop over it runs in an order of the
\* interpreter's choosing, the same for every row.
UV_Mappings ==
    /\ op = "upload_vidal_data"
    /\ u_pc = "mappings"
    /\ \E exists \in BOOLEAN :
          LET found == get_vidal_mappings(mapping_table)
              available_columns == Range(df.columns)
              all_mapped_columns == DictKeys(found)
              usable_columns == all_mapped_columns \cap available_columns
          IN IF ~exists
             THEN /\ u_result' = UploadError(ErrNoTable, "error")
                  /\ u_pc' = "finally"
                  /\ UNCHANGED << u_mappings, u_columns >>
             ELSE IF found = <<>>
             THEN /\ u_result' = UploadError("No mappings found in mapping_table", "error")
                  /\ u_pc' = "finally"
                  /\ UNCHANGED << u_mappings, u_columns >>
             ELSE IF usable_columns = {}
             THEN /\ u_result' = UploadError("No mapped columns found in Excel file",
                                             "error")
                  /\ u_pc' = "finally"
                  /\ u_mappings' = found
                  /\ UNCHANGED u_columns
             ELSE /\ u_mappings' = found
                  /\ u_columns' \in Orderings(usable_columns)
                  /\ u_pc' = "rows"
                  /\ UNCHANGED u_result
    /\ UNCHANGED << op, args, mapping_table, target_rows, p_vars, s_vars, c_vars,
                    file_path, df, u_connection, u_cursor, u_index, inserted_count,
                    errors, u_pending, table_name, u_created, loaded_rows >>

\* Lines 218-219 writing the first target column only.
fan_out_first_target(targets, j, value, insert_data) ==
    IF targets = <<>> THEN insert_data
    ELSE DictSet(insert_data, Strip(targets[1]), value)

\* Lines 218-219 for one source column, from its target column at position j.
RECURSIVE fan_out(_, _, _, _)
fan_out(targets, j, value, insert_data) ==
    IF j > Len(targets) THEN insert_data
    ELSE fan_out(targets, j + 1, value, DictSet(insert_data, Strip(targets[j]), value))

\* Lines 202-219 from the usable column at position i on.
RECURSIVE vidal_insert_data(_, _, _, _, _)
vidal_insert_data(usable_columns, i, found, row, insert_data) ==
    IF i > Len(usable_columns) THEN insert_data
    ELSE vidal_insert_data(usable_columns, i + 1, found, row,
            fan_out(DictGet(found, usable_columns[i]).target_columns, 1,
                    StrV(PyStr(row[usable_columns[i]])), insert_data))

\* Lines 199-237: one row of the sheet; the insert is committed at once.  A
\* column of empty name makes the statement fail.
UV_Row ==
    /\ op = "upload_vidal_data"
    /\ u_pc = "rows"
    /\ u_index < Len(df.rows)
    /\ LET idx == u_index + 1
           insert_data == vidal_insert_data(u_columns, 1, u_mappings, df.rows[idx], <<>>)
       IN /\ u_index' = idx
          /\ IF insert_data = <<>>
             THEN UNCHANGED << loaded_rows, inserted_count, errors >>
             ELSE \E accepted \in BOOLEAN :
                     /\ accepted => <<>> \notin DictKeys(insert_data)
                     /\ IF accepted
                        THEN /\ loaded_rows' = Append(loaded_rows, insert_data)
                             /\ inserted_count' = inserted_count + 1
                             /\ UNCHANGED errors
                        ELSE /\ errors' = Append(errors, RowError(idx, ErrInsert))
                             /\ UNCHANGED << loaded_rows, inserted_count >>
    /\ UNCHANGED << op, args, mapping_table, target_rows, p_vars, s_vars, c_vars,
                    file_path, df, u_pc, u_connection, u_cursor, u_mappings,
                    u_columns, u_pending, table_name, u_created, u_result >>

\* Lines 239-252; list(missing_columns) is in an order of the interpreter's
\* choosing.
UV_Return ==
    /\ op = "upload_vidal_data"
    /\ u_pc = "rows"
    /\ u_index = Len(df.rows)
    /\ \E missing_columns \in Orderings(DictKeys(u_mappings) \ Range(df.columns)) :
          u_result' = [NoUpload EXCEPT
                          !.kind = "success",
                          !.total_rows = Len(df.rows),
                          !.inserted_rows = inserted_count,
                          !.columns = u_columns,
                          !.missing_columns = missing_columns,
                          !.errors = errors,
                          !.status = IF errors # <<>> \/ missing_columns # <<>>
                                     THEN "partial_success" ELSE "success"]
    /\ u_pc' = "finally"
    /\ UNCHANGED << op, args, mapping_table, target_rows, p_vars, s_vars, c_vars,
                    file_path, df, u_connection, u_cursor, u_mappings, u_columns,
                    u_index, inserted_count, errors, u_pending, table_name,
                    u_created, loaded_rows >>

\* Lines 260-264: connection is a local from line 169 on, None included.
UV_Finally ==
    /\ op = "upload_vidal_data"
    /\ u_pc = "finally"
    /\ u_cursor' = IF u_cursor = "open" THEN "closed" ELSE u_cursor
    /\ CASE u_connection = "open" ->
              /\ u_connection' = "closed"
              /\ UNCHANGED u_result
         [] u_connection = "None" ->
              /\ u_result' = UploadRaised("AttributeError")
              /\ UNCHANGED u_connection
         [] OTHER -> UNCHANGED << u_connection, u_result >>
    /\ u_pending' = <<>>
    /\ u_pc' = "done"
    /\ UNCHANGED << op, args, mapping_table, target_rows, p_vars, s_vars, c_vars,
                    file_path, df, u_mappings, u_columns, u_index, inserted_count,
                    errors, table_name, u_created, loaded_rows >>

----------------------------------------------------------------------------
(* upload_data_with_mapping *)

\* Index of the last occurrence of c in chars, 0 when there is none.
LastIndexOf(chars, c) ==
    IF \E i \in 1..Len(chars) : chars[i] = c
    THEN CHOOSE i \in 1..Len(chars) :
            chars[i] = c /\ \A j \in (i + 1)..Len(chars) : chars[j] # c
    ELSE 0

\* os.path.basename(path)
basename(path) == SubSeq(path, LastIndexOf(path, "/") + 1, Len(path))

\* os.path.splitext(name)[0] for a name without directory: the extension
\* starts at the last dot, unless only dots precede it.
splitext_root(name) ==
    LET dot == LastIndexOf(name, ".")
    IN IF dot > 0 /\ \E i \in 1..(dot - 1) : name[i] # "."
       THEN SubSeq(name, 1, dot - 1)
       ELSE name

\* c.isalnum() for the characters of the model
IsAlnum(c) ==
    \/ IsDigit(c)
    \/ \E k \in 1..Len(LowerChars) : LowerChars[k] = c \/ UpperChars[k] = c

\* Lines 17 and 19 with the case of the letters swapped instead of lowered.
sanitize_name_swaps_case(name) ==
    LET swapped == [i \in 1..Len(name) |->
                      IF \E k \in 1..Len(LowerChars) : LowerChars[k] = name[i]
                      THEN UpperChars[CHOOSE k \in 1..Len(LowerChars) :
                                         LowerChars[k] = name[i]]
                      ELSE Lower(<<name[i]>>)[1]]
    IN [i \in 1..Len(swapped) |-> IF IsAlnum(swapped[i]) THEN swapped[i] ELSE "_"]

\* Lines 17 and 19: .lower(), then every character that is not alphanumeric
\* becomes an underscore.
sanitize_name(name) ==
    LET lowered == Lower(name)
    IN [i \in 1..Len(lowered) |-> IF IsAlnum(lowered[i]) THEN lowered[i] ELSE "_"]

\* Lines 17-19
sanitize(path) == sanitize_name(splitext_root(basename(path)))

FilePaths ==
    { <<"/", "u", ".", "d", "/", "V", " ", "Q", "1", ".", "x", "l", "s", "x">>,
      <<"a", ".", "b", "-", "c", ".", "X", "L", "S", "X">>,
      <<"2", "0", "2", "4", ".", "x", "l", "s", "x">> }

\* Rows of the mapping table the caller names.
UploadMappingRows ==
    { Mapping("a", "x", "", "T"),
      Mapping("b", "y", "", "T"),
      Mapping("b", "x", "", "T"),
      Mapping("zz", "w", "", "T") }

UploadMappingTables == SeqsUpTo(UploadMappingRows, 2)

DataSheets ==
    Sheets(<<"a", "b", "other">>,
           { Cells({"a", "b", "other"}, V42, {}),
             Cells({"a", "b", "other"}, Vabc, {"a"}),
             Cells({"a", "b", "other"}, Vabc, {"a", "b"}) })

\* A row an earlier upload of the same file name left in its table.
OldRow == << [k |-> "x", v |-> Vabc] >>

InitUploadData ==
    /\ op = "upload_data_with_mapping"
    /\ Idle
    /\ CInitLocals
    /\ mapping_table \in UploadMappingTables
    /\ target_rows = <<>>
    /\ file_path \in FilePaths
    /\ df \in DataSheets \cup {NoSheet}
    /\ u_pc = "read"
    /\ u_created \in BOOLEAN
    /\ loaded_rows = IF u_created THEN <<OldRow>> ELSE <<>>
    /\ UInitLocals

\* Lines 17-23
UD_Read ==
    /\ op = "upload_data_with_mapping"
    /\ u_pc = "read"
    /\ table_name' = sanitize(file_path)
    /\ IF ~df.ok
       THEN /\ u_result' = UploadError(ErrRead, "")
            /\ u_pc' = "finally"
       ELSE /\ u_pc' = "connect"
            /\ UNCHANGED u_result
    /\ UNCHANGED << op, args, mapping_table, target_rows, p_vars, s_vars, c_vars,
                    file_path, df, u_connection, u_cursor, u_mappings, u_columns,
                    u_index, inserted_count, errors, u_pending, u_created,
                    loaded_rows >>

\* Lines 26-30
UD_Connect ==
    /\ op = "upload_data_with_mapping"
    /\ u_pc = "connect"
    /\ \E connection \in {"None", "open"} :
          /\ u_connection' = connection
          /\ IF connection = "None"
             THEN /\ u_result' = UploadError("Database connection failed", "")
                  /\ u_pc' = "finally"
                  /\ UNCHANGED u_cursor
             ELSE /\ u_cursor' = "open"
                  /\ u_pc' = "mappings"
                  /\ UNCHANGED u_result
    /\ UNCHANGED << op, args, mapping_table, target_rows, p_vars, s_vars, c_vars,
                    file_path, df, u_mappings, u_columns, u_index, inserted_count,
                    errors, u_pending, table_name, u_created, loaded_rows >>

\* Lines 32-61: the mappings, and those whose source column the sheet has.
UD_Mappings ==
    /\ op = "upload_data_with_mapping"
    /\ u_pc = "mappings"
    /\ \E exists \in BOOLEAN :
          LET excel_columns == Range(df.columns)
              valid == SelectSeq(mapping_table,
                                 LAMBDA m : m.source_column \in excel_columns)
          IN IF ~exists
             THEN /\ u_result' = UploadError(ErrNoTable, "")
                  /\ u_pc' = "finally"
                  /\ UNCHANGED << u_mappings, u_columns >>
             ELSE IF mapping_table = <<>>
             THEN /\ u_result' = UploadError("No mappings found", "")
                  /\ u_pc' = "finally"
                  /\ UNCHANGED << u_mappings, u_columns >>
             ELSE IF valid = <<>>
             THEN /\ \E listed \in Orderings(excel_columns) :
                        u_result' =
                           [UploadError("No valid source columns found in Excel file", "")
                               EXCEPT !.columns = listed,
                                      !.missing_columns =
                                          [i \in 1..Len(mapping_table) |->
                                              mapping_table[i].source_column]]
                  /\ u_pc' = "finally"
                  /\ u_mappings' = mapping_table
                  /\ UNCHANGED u_columns
             ELSE /\ u_mappings' = mapping_table
                  /\ u_columns' = valid
                  /\ u_pc' = "create"
                  /\ UNCHANGED u_result
    /\ UNCHANGED << op, args, mapping_table, target_rows, p_vars, s_vars, c_vars,
                    file_path, df, u_connection, u_cursor, u_index, inserted_count,
                    errors, u_pending, table_name, u_created, loaded_rows >>

\* Line 64 from the valid mapping at position i on.
RECURSIVE source_to_target(_, _, _)
source_to_target(valid, i, dict) ==
    IF i > Len(valid) THEN dict
    ELSE source_to_target(valid, i + 1,
                          DictSet(dict, valid[i].source_column, valid[i].target_column))

\* Line 65
target_columns(dict) == [i \in 1..Len(dict) |-> dict[i].v]

\* Lines 68-80: DROP TABLE IF EXISTS and CREATE TABLE, each committed.  A
\* table name of digits only is a syntax error; a column named twice, or
\* named as the id or created_at column, makes CREATE TABLE fail.
UD_Create ==
    /\ op = "upload_data_with_mapping"
    /\ u_pc = "create"
    /\ LET targets == target_columns(source_to_target(u_columns, 1, <<>>))
           duplicated == \/ Cardinality(Range(targets)) < Len(targets)
                         \/ Range(targets) \cap {"id", "created_at"} # {}
       IN IF AllDigits(table_name)
          THEN /\ u_result' = UploadError(ErrSyntax, "")
               /\ u_pc' = "finally"
               /\ UNCHANGED << u_created, loaded_rows >>
          ELSE IF duplicated
          THEN /\ u_result' = UploadError("Duplicate column name", "")
               /\ u_pc' = "finally"
               /\ u_created' = FALSE
               /\ loaded_rows' = <<>>
          ELSE /\ u_pc' = "rows"
               /\ u_created' = TRUE
               /\ loaded_rows' = <<>>
               /\ UNCHANGED u_result
    /\ UNCHANGED << op, args, mapping_table, target_rows, p_vars, s_vars, c_vars,
                    file_path, df, u_connection, u_cursor, u_mappings, u_columns,
                    u_index, inserted_count, errors, u_pending, table_name >>

\* Lines 83-85 and 91: the cells of the row under their target columns, those
\* that are not NaN.
RECURSIVE valid_data(_, _, _, _)
valid_data(dict, i, row, data) ==
    IF i > Len(dict) THEN data
    ELSE valid_data(dict, i + 1, row,
                    IF row[dict[i].k].t \in {"nan", "none"} THEN data
                    ELSE DictSet(data, dict[i].v, row[dict[i].k]))

\* Lines 89-103: one row of the sheet.  A rejected insert ends the call.
UD_Row ==
    /\ op = "upload_data_with_mapping"
    /\ u_pc = "rows"
    /\ u_index < Len(df.rows)
    /\ LET idx == u_index + 1
           data == valid_data(source_to_target(u_columns, 1, <<>>), 1, df.rows[idx], <<>>)
       IN /\ u_index' = idx
          /\ IF data = <<>>
             THEN UNCHANGED << u_pending, inserted_count, u_result, u_pc >>
             ELSE \E accepted \in BOOLEAN :
                     IF accepted
                     THEN /\ u_pending' = Append(u_pending, data)
                          /\ inserted_count' = inserted_count + 1
                          /\ UNCHANGED << u_result, u_pc >>
                     ELSE /\ u_result' = UploadError(ErrInsert, "")
                          /\ u_pc' = "finally"
                          /\ UNCHANGED << u_pending, inserted_count >>
    /\ UNCHANGED << op, args, mapping_table, target_rows, p_vars, s_vars, c_vars,
                    file_path, df, u_connection, u_cursor, u_mappings, u_columns,
                    errors, table_name, u_created, loaded_rows >>

\* UD_Commit reporting the columns of the sheet that no mapping names.
UD_Commit_reports_sheet_columns ==
    /\ op = "upload_data_with_mapping"
    /\ u_pc = "rows"
    /\ u_index = Len(df.rows)
    /\ loaded_rows' = loaded_rows \o u_pending
    /\ u_pending' = <<>>
    /\ LET mapped_source_columns == DictKeys(source_to_target(u_columns, 1, <<>>))
           all_mapping_source_columns ==
               {u_mappings[i].source_column : i \in 1..Len(u_mappings)}
       IN \E found \in Orderings(mapped_source_columns),
             unmapped \in Orderings(Range(df.columns) \ all_mapping_source_columns) :
             u_result' = [NoUpload EXCEPT
                             !.kind = "success",
                             !.inserted_rows = inserted_count,
                             !.table_name = table_name,
                             !.columns = found,
                             !.total_in_mapping = Len(u_mappings),
                             !.total_mapped = Len(u_columns),
                             !.missing_columns = unmapped]
    /\ u_pc' = "finally"
    /\ UNCHANGED << op, args, mapping_table, target_rows, p_vars, s_vars, c_vars,
                    file_path, df, u_connection, u_cursor, u_mappings, u_columns,
                    u_index, inserted_count, errors, table_name, u_created >>

\* Lines 105-121: commit and report; the lists made of sets are in an order
\* of the interpreter's choosing.
UD_Commit ==
    /\ op = "upload_data_with_mapping"
    /\ u_pc = "rows"
    /\ u_index = Len(df.rows)
    /\ loaded_rows' = loaded_rows \o u_pending
    /\ u_pending' = <<>>
    /\ LET mapped_source_columns == DictKeys(source_to_target(u_columns, 1, <<>>))
           all_mapping_source_columns ==
               {u_mappings[i].source_column : i \in 1..Len(u_mappings)}
       IN \E found \in Orderings(mapped_source_columns),
             unmapped \in Orderings(all_mapping_source_columns \ mapped_source_columns) :
             u_result' = [NoUpload EXCEPT
                             !.kind = "success",
                             !.inserted_rows = inserted_count,
                             !.table_name = table_name,
                             !.columns = found,
                             !.total_in_mapping = Len(u_mappings),
                             !.total_mapped = Len(u_columns),
                             !.missing_columns = unmapped]
    /\ u_pc' = "finally"
    /\ UNCHANGED << op, args, mapping_table, target_rows, p_vars, s_vars, c_vars,
                    file_path, df, u_connection, u_cursor, u_mappings, u_columns,
                    u_index, inserted_count, errors, table_name, u_created >>

\* UD_Finally without line 130.
UD_Finally_cursor_only ==
    /\ op = "upload_data_with_mapping"
    /\ u_pc = "finally"
    /\ u_cursor' = IF u_cursor = "open" THEN "closed" ELSE u_cursor
    /\ u_pending' = <<>>
    /\ u_pc' = "done"
    /\ UNCHANGED << op, args, mapping_table, target_rows, p_vars, s_vars, c_vars,
                    file_path, df, u_mappings, u_columns, u_index, inserted_count,
                    errors, table_name, u_created, loaded_rows, u_connection,
                    u_result >>

\* Lines 126-130: connection is a local from line 26 on, None included;
\* closing the connection discards what was not committed.
UD_Finally ==
    /\ op = "upload_data_with_mapping"
    /\ u_pc = "finally"
    /\ u_cursor' = IF u_cursor = "open" THEN "closed" ELSE u_cursor
    /\ CASE u_connection = "open" ->
              /\ u_connection' = "closed"
              /\ UNCHANGED u_result
         [] u_connection = "None" ->
              /\ u_result' = UploadRaised("AttributeError")
              /\ UNCHANGED u_connection
         [] OTHER -> UNCHANGED << u_connection, u_result >>
    /\ u_pending' = <<>>
    /\ u_pc' = "done"
    /\ UNCHANGED << op, args, mapping_table, target_rows, p_vars, s_vars, c_vars,
                    file_path, df, u_mappings, u_columns, u_index, inserted_count,
                    errors, table_name, u_created, loaded_rows >>

----------------------------------------------------------------------------
(* The coercion of lines 107-114 on its own *)

InitCoerce ==
    /\ op = "coerce_column"
    /\ Idle
    /\ mapping_table = <<>>
    /\ target_rows = <<>>
    /\ UIdle
    /\ c_pc = "input"
    /\ c_type \in ColumnTypes
    /\ c_value \in CoerceValues
    /\ c_result = NoneV
    /\ NInitLocals

C_Coerce ==
    /\ c_pc = "input"
    /\ c_result' = coerce_column(c_type, c_value)
    /\ c_pc' = "done"
    /\ UNCHANGED << op, args, mapping_table, target_rows, p_vars, s_vars, u_vars,
                    c_type, c_value, n_vars >>

----------------------------------------------------------------------------
(* The table name of upload_data_with_mapping on its own *)

MaxNameLen == 3

NameChars == {"a", "Q", "1", "_", " ", "-", ".", "/"}

Names == SeqsUpTo(NameChars, MaxNameLen)

InitSanitize ==
    /\ op = "sanitize"
    /\ Idle
    /\ mapping_table = <<>>
    /\ target_rows = <<>>
    /\ UIdle
    /\ c_pc = "idle"
    /\ c_type = <<>>
    /\ c_value = NoneV
    /\ c_result = NoneV
    /\ n_pc = "input"
    /\ n_name \in Names
    /\ n_once = <<>>
    /\ n_twice = <<>>

\* Lines 17-19 on file_path = n_name.
N_Sanitize ==
    /\ n_pc = "input"
    /\ n_once' = sanitize(n_name)
    /\ n_pc' = "once"
    /\ UNCHANGED << op, args, mapping_table, target_rows, p_vars, s_vars, u_vars,
                    c_pc, c_type, c_value, c_result, n_name, n_twice >>

\* Lines 17-19 on the table_name they made.
N_SanitizeAgain ==
    /\ n_pc = "once"
    /\ n_twice' = sanitize(n_once)
    /\ n_pc' = "twice"
    /\ UNCHANGED << op, args, mapping_table, target_rows, p_vars, s_vars, u_vars,
                    c_pc, c_type, c_value, c_result, n_name, n_once >>

----------------------------------------------------------------------------
(* Specification *)

Init ==
    \/ InitProcess
    \/ InitSchedule
    \/ InitUploadMapping
    \/ InitUploadVidal
    \/ InitUploadData

Next ==
    \/ P_Connect
    \/ P_DescribeTarget
    \/ P_LoadMappings
    \/ P_DescribeSource
    \/ P_Query
    \/ P_Row
    \/ P_Commit
    \/ P_Finally
    \/ S_Connect
    \/ S_InsertRecord
    \/ S_Call
    \/ S_Update
    \/ S_Finally
    \/ UM_Read
    \/ UM_Connect
    \/ UM_Row
    \/ UM_Return
    \/ UM_Finally
    \/ UV_Read
    \/ UV_Connect
    \/ UV_Mappings
    \/ UV_Row
    \/ UV_Return
    \/ UV_Finally
    \/ UD_Read
    \/ UD_Connect
    \/ UD_Mappings
    \/ UD_Create
    \/ UD_Row
    \/ UD_Commit
    \/ UD_Finally

Spec == Init /\ [][Next]_vars

NextCoerce == C_Coerce

SpecCoerce == InitCoerce /\ [][NextCoerce]_vars

NextSanitize ==
    \/ N_Sanitize
    \/ N_SanitizeAgain

SpecSanitize == InitSanitize /\ [][NextSanitize]_vars

----------------------------------------------------------------------------
(* Properties *)

PFinished == p_pc \in {"finally", "done"}

Sent(kind) == {k \in DOMAIN db_log : db_log[k].stmt = kind}

\* The connection, the mappings and the source rows were obtained.
SetupDone == \E k \in Sent("SELECT source") : db_log[k].ok

InsertsFor(i) == {k \in Sent("INSERT") : db_log[k].row = i}

AcceptedFor(i) == {k \in InsertsFor(i) : db_log[k].ok}

FailuresFor(i) == {k \in DOMAIN failed_rows : failed_rows[k].index = i}

NoMappingsForTarget ==
    \A k \in DOMAIN mapping_table : mapping_table[k].target_table # args.target_table

\* C1: once the setup of process_target_table has succeeded, every fetched
\* source row is processed exactly once and ends either inserted or in
\* failed_rows, a failing row does not stop the rows after it, the call
\* returns the success result, and inserted_count plus the number of
\* failed_rows entries is the number of source rows.
C1_EveryRowInsertedOrFailed ==
    /\ p_pc = "loop" => insert_count + Len(failed_rows) = row_index
    /\ (SetupDone /\ PFinished) =>
          /\ p_result.kind = "success"
          /\ row_index = Len(source_data)
          /\ \A i \in 1..Len(source_data) :
                /\ Cardinality(InsertsFor(i)) <= 1
                /\ Cardinality(AcceptedFor(i)) + Cardinality(FailuresFor(i)) = 1
          /\ \A k \in DOMAIN failed_rows :
                /\ failed_rows[k].index \in 1..Len(source_data)
                /\ failed_rows[k].row = source_data[failed_rows[k].index]
          /\ p_result.failed_rows = failed_rows
          /\ p_result.inserted = Cardinality({k \in Sent("INSERT") : db_log[k].ok})
          /\ p_result.inserted + Len(p_result.failed_rows) = Len(source_data)

\* A batch whose first row failed and whose second row was inserted.
C1_Witness ==
    /\ p_pc = "done"
    /\ p_result.kind = "success"
    /\ Len(source_data) = 2
    /\ FailuresFor(1) # {}
    /\ AcceptedFor(2) # {}
    /\ p_result.inserted = 1
    /\ Len(p_result.failed_rows) = 1

\* C2: when mapping_table has no row for the target table, the call fails
\* with the "no mappings found" error result, before any source row is read
\* and before any insert: the target table is unchanged.
C2_NoMappingsFailsBeforeRows ==
    (PFinished /\ NoMappingsForTarget) =>
        /\ p_result.kind # "success"
        /\ Sent("SELECT source") = {}
        /\ Sent("DESCRIBE source") = {}
        /\ Sent("INSERT") = {}
        /\ Sent("COMMIT") = {}
        /\ target_rows = <<>>
        /\ p_pending = <<>>
        /\ Sent("SELECT mapping_table") # {} => p_result = ErrorResult(ErrNoMappings)

\* mapping_table holds rows, none of them for the target table.
C2_Witness ==
    /\ p_pc = "done"
    /\ mapping_table # <<>>
    /\ NoMappingsForTarget
    /\ p_result = ErrorResult(ErrNoMappings)

MappedTargets == {mappings[k].target_column : k \in DOMAIN mappings}

\* The valid mappings whose coercion raises on the row.
RaisingMappings(row) ==
    {k \in DOMAIN valid_mappings :
        /\ valid_mappings[k].target_column \in DOMAIN table_columns
        /\ IsRaise(coerce_column(table_columns[valid_mappings[k].target_column],
                apply_transformation(valid_mappings[k].transformation_logic,
                                     row[valid_mappings[k].source_column])))}

\* C3: a row that process_target_table inserts holds only target columns
\* that a mapping names and the live schema has, and at most as many columns
\* as there are mappings; a mapping to a column the schema lacks neither
\* raises nor appears in the row.
C3_InsertedColumnsMappedAndLive ==
    /\ \A k \in Sent("INSERT") :
          /\ DictKeys(db_log[k].cols) \subseteq (MappedTargets \cap DOMAIN table_columns)
          /\ Len(db_log[k].cols) <= Len(mappings)
          /\ Len(db_log[k].cols) = Cardinality(DictKeys(db_log[k].cols))
    /\ \A r \in DOMAIN p_pending :
          DictKeys(p_pending[r]) \subseteq (MappedTargets \cap DOMAIN table_columns)
    /\ \A r \in DOMAIN target_rows :
          DictKeys(target_rows[r]) \subseteq (MappedTargets \cap DOMAIN table_columns)
    /\ \A f \in DOMAIN failed_rows :
          failed_rows[f].error \in {"ValueError", "TypeError"}
             => RaisingMappings(failed_rows[f].row) # {}

\* A row was inserted although one of its mappings names a column the live
\* schema lacks.
C3_Witness ==
    /\ p_pc = "done"
    /\ target_rows # <<>>
    /\ \E k \in DOMAIN valid_mappings :
          valid_mappings[k].target_column \notin DOMAIN table_columns

NoLiveTarget ==
    \A k \in DOMAIN valid_mappings :
        valid_mappings[k].target_column \notin DOMAIN table_columns

\* C4: a source row for which no mapped target column is in the live schema
\* is recorded in failed_rows with the "no matching columns" error, no INSERT
\* is sent for it, and it is not counted in insert_count.
C4_NoMatchingColumnsFailsRow ==
    NoLiveTarget =>
        /\ \A i \in 1..row_index :
              /\ \E f \in FailuresFor(i) : failed_rows[f].error = ErrNoMatch
              /\ InsertsFor(i) = {}
        /\ insert_count = 0
        /\ p_pending = <<>>
        /\ target_rows = <<>>

C4_Witness ==
    /\ p_pc = "done"
    /\ row_index = 2
    /\ NoLiveTarget
    /\ \A i \in 1..2 : \E f \in FailuresFor(i) : failed_rows[f].error = ErrNoMatch

\* The valid mappings whose transformation_logic raises on the row.
EvalFailures(row) ==
    {k \in DOMAIN valid_mappings :
        /\ valid_mappings[k].transformation_logic # ""
        /\ IsRaise(EvalLogic(valid_mappings[k].transformation_logic,
                             IF row[valid_mappings[k].source_column].t = "none"
                             THEN <<>>
                             ELSE PyStr(row[valid_mappings[k].source_column])))}

\* The last valid mapping that writes the target column of mapping k.
LastWriter(k) ==
    \A j \in DOMAIN valid_mappings :
        valid_mappings[j].target_column = valid_mappings[k].target_column => j <= k

\* The valid mappings other than those of ks whose coercion raises on the row.
OtherRaising(row, ks) == RaisingMappings(row) \ ks

\* C5: when the evaluation of a mapping's transformation_logic raises, the
\* column's value is null and the row goes on: the other mappings are applied
\* and the row is sent for insert; the evaluation failure alone never puts
\* the row in failed_rows while some mapped target column is in the schema.
C5_EvalFailureGivesNull ==
    \A i \in 1..row_index :
        LET row == source_data[i]
            failing == EvalFailures(row)
        IN (failing # {} /\ ~NoLiveTarget /\ OtherRaising(row, failing) = {}) =>
              /\ Cardinality(InsertsFor(i)) = 1
              /\ \A f \in FailuresFor(i) : failed_rows[f].error = ErrInsert
              /\ \A n \in InsertsFor(i) :
                    /\ \A k \in failing :
                          (LastWriter(k)
                           /\ valid_mappings[k].target_column \in DOMAIN table_columns)
                             => DictGet(db_log[n].cols,
                                        valid_mappings[k].target_column) = NoneV
                    /\ \A k \in DOMAIN valid_mappings :
                          valid_mappings[k].target_column \in DOMAIN table_columns
                             => valid_mappings[k].target_column
                                   \in DictKeys(db_log[n].cols)

\* A row was inserted with a null for the column whose expression raised and
\* the value of another mapping beside it.
C5_Witness ==
    /\ p_pc = "done"
    /\ \E n \in Sent("INSERT") :
          /\ db_log[n].ok
          /\ EvalFailures(source_data[db_log[n].row]) # {}
          /\ \E c \in DOMAIN db_log[n].cols : db_log[n].cols[c].v = NoneV
          /\ \E c \in DOMAIN db_log[n].cols : db_log[n].cols[c].v # NoneV

\* C8: process_target_table commits once after the whole batch: no commit is
\* sent while the row loop runs, and a call that returns the success result
\* sent exactly one commit, after its last row was processed.
C8_CommitOnceAfterBatch ==
    /\ p_pc \in {"connect", "describe_target", "load_mappings", "describe_source",
                 "query", "loop"} => Sent("COMMIT") = {}
    /\ p_result.kind = "success" =>
          /\ Cardinality(Sent("COMMIT")) = 1
          /\ db_log[Len(db_log)].stmt = "COMMIT"
          /\ row_index = Len(source_data)
          /\ p_pending = <<>>
          /\ Len(target_rows) = p_result.inserted

C8_Witness ==
    /\ p_pc = "done"
    /\ p_result.kind = "success"
    /\ Cardinality(Sent("INSERT")) = 2
    /\ db_log[Len(db_log)].stmt = "COMMIT"
    /\ Len(target_rows) = 2

\* C9: when schedule_processing runs for a target table without mappings and
\* the processor returns its error, the run record the call inserted is
\* Completed when the call returns and the result embeds that error in details.
C9_ZeroMappingsRunCompleted ==
    (s_pc = "done" /\ s_inserted # 0 /\ NoMappingsForTarget /\ p_result.kind = "error") =>
        /\ scheduler_details[s_inserted].status = "Completed"
        /\ s_result.kind = "success"
        /\ s_result.details = <<p_result>>
        /\ Sent("SELECT mapping_table") # {} => s_result.details[1].msg = ErrNoMappings

C9_Witness ==
    /\ s_pc = "done"
    /\ s_inserted # 0
    /\ NoMappingsForTarget
    /\ scheduler_details[s_inserted].status = "Completed"
    /\ s_result.details = <<ErrorResult(ErrNoMappings)>>

DateTyped == c_type \in {TypeDate, TypeDateTime}
IntTyped == c_type \in {TypeInt, TypeBigInt}
DecimalTyped == c_type = TypeDecimal

\* The value reads as day/month/year and names a day of the calendar.
DayMonthYearForm(value) == value.t = "str" /\ StrptimeDMY(value.s).ok

\* The value reads as year-month-day and names a day of the calendar.
YearMonthDayForm(value) == value.t = "str" /\ StrptimeYMD(value.s).ok

\* The digits of the three fields of a day/month/year string, as YYYY-MM-DD.
Rearranged(chars) ==
    LET f == Fields(chars, "/")
        two(tok) == IF Len(tok) = 2 /\ tok[1] # " " THEN tok
                    ELSE <<"0", tok[Len(tok)]>>
    IN f[3] \o <<"-">> \o two(f[2]) \o <<"-">> \o two(f[1])

\* C6: coercion of a value for a date-typed column: a DD/MM/YYYY value comes
\* back as YYYY-MM-DD, a valid YYYY-MM-DD value comes back unchanged, every
\* other value gives null and is not passed through, and the coercion never
\* raises.
C6_DateCoercion ==
    (c_pc = "done" /\ DateTyped) =>
        /\ ~IsRaise(c_result)
        /\ DayMonthYearForm(c_value) => c_result = StrV(Rearranged(c_value.s))
        /\ (YearMonthDayForm(c_value) /\ ~DayMonthYearForm(c_value))
              => c_result = c_value
        /\ (~DayMonthYearForm(c_value) /\ ~YearMonthDayForm(c_value))
              => c_result = NoneV

\* C6 on strings and None: the part of the claim the code keeps.
C6_DateCoercionOfStrings ==
    (c_pc = "done" /\ DateTyped /\ c_value.t \in {"str", "none"}) =>
        /\ ~IsRaise(c_result)
        /\ DayMonthYearForm(c_value) => c_result = StrV(Rearranged(c_value.s))
        /\ (YearMonthDayForm(c_value) /\ ~DayMonthYearForm(c_value))
              => c_result = c_value
        /\ (~DayMonthYearForm(c_value) /\ ~YearMonthDayForm(c_value))
              => c_result = NoneV

\* A numeral as str() prints an integer: digits without a leading zero, after
\* an optional minus sign.
PlainNumeral(value) ==
    /\ value.t = "str"
    /\ Unsigned(value.s) # <<>>
    /\ AllDigits(Unsigned(value.s))
    /\ value.s[1] # "+"
    /\ Unsigned(value.s)[1] = "0" => value.s = <<"0">>

\* C7: for an integer-typed or decimal-typed target column the values None,
\* "nan" and "" become null, never 0, and a parseable value becomes its
\* number: "42" gives 42.
C7_NumericCoercion ==
    (c_pc = "done" /\ (IntTyped \/ DecimalTyped)) =>
        /\ c_value \in {NoneV, StrV(<<"n", "a", "n">>), StrV(<<>>)}
              => c_result = NoneV
        /\ IntTyped =>
              /\ c_value = V42 => c_result = IntV(42)
              /\ PlainNumeral(c_value) =>
                    c_result.t = "int" /\ IntToChars(c_result.n) = c_value.s
              /\ c_value.t = "int" => c_result = c_value
        /\ DecimalTyped =>
              /\ c_value = V42 => c_result = FloatV(42, 0)
              /\ PlainNumeral(c_value) =>
                    /\ c_result.t = "float"
                    /\ c_result.e = 0
                    /\ IntToChars(c_result.n) = c_value.s
              /\ c_value = StrV(<<"4", ".", "5">>) => c_result = FloatV(45, 1)
              /\ c_value.t = "int" => c_result = FloatV(c_value.n, 0)

C7_Witness ==
    /\ c_pc = "done"
    /\ IntTyped
    /\ c_value = StrV(<<"n", "a", "n">>)
    /\ c_result = NoneV

\* C10: when a call of process_target_table, schedule_processing,
\* upload_mapping, upload_vidal_data or upload_data_with_mapping has returned
\* or raised, no connection it acquired is still open, whichever way it ended.
C10_ConnectionsReleased ==
    /\ p_pc = "done" => p_connection \in {"unbound", "None", "closed"}
    /\ s_pc = "done" =>
          /\ s_connection \in {"unbound", "None", "closed"}
          /\ p_connection \in {"unbound", "None", "closed"}
    /\ u_pc = "done" => u_connection \in {"unbound", "None", "closed"}

\* upload_data_with_mapping ended by an insert the database rejected inside
\* its row loop, and its connection is closed.
C10_Witness ==
    /\ op = "upload_data_with_mapping"
    /\ u_pc = "done"
    /\ u_index > 0
    /\ u_result.kind = "error"
    /\ u_result.error = ErrInsert
    /\ u_connection = "closed"

\* The required columns the docstring of upload_mapping lists (lines 11-19).
DocumentedColumns ==
    { "tpa_id", "source_database", "source_table", "source_column",
      "target_database", "target_table", "target_column", "transformation_logic" }

LacksDocumentedColumn ==
    op = "upload_mapping" /\ df.ok /\ DocumentedColumns \ Range(df.columns) # {}

\* C11: upload_mapping rejects a sheet that lacks one of the documented
\* required columns: it never connects, opens a cursor or inserts, and it
\* returns status "error" naming the missing columns.
C11_MissingColumnRejected ==
    LacksDocumentedColumn =>
        /\ u_connection = "unbound"
        /\ u_cursor = "unbound"
        /\ mapping_table = <<>>
        /\ u_pc = "done" =>
              /\ u_result.kind = "error"
              /\ u_result.status = "error"
              /\ Range(u_result.missing_columns) = DocumentedColumns \ Range(df.columns)

\* C11 for the sheets that have a source_column column: the part of the claim
\* the code keeps.
C11_RejectedUnlessOnlySourceColumn ==
    (LacksDocumentedColumn /\ "source_column" \in Range(df.columns)) =>
        /\ u_connection = "unbound"
        /\ u_cursor = "unbound"
        /\ mapping_table = <<>>
        /\ u_pc = "done" =>
              /\ u_result.kind = "error"
              /\ u_result.status = "error"
              /\ Range(u_result.missing_columns) = DocumentedColumns \ Range(df.columns)

\* The row of mapping_table in force for a source column of the Vidal
\* sheet: the last one for temp_vidal_claims that names it.
InForce(c) ==
    CHOOSE i \in DOMAIN mapping_table :
        /\ mapping_table[i].target_table = "temp_vidal_claims"
        /\ mapping_table[i].source_column = c
        /\ \A j \in DOMAIN mapping_table :
              (mapping_table[j].target_table = "temp_vidal_claims"
               /\ mapping_table[j].source_column = c) => j <= i

\* The names a comma-separated list holds, trimmed.
ListedIn(chars) ==
    { Strip(SubSeq(chars, ij[1], ij[2])) : ij \in
        { ij \in (1..(Len(chars) + 1)) \X (0..Len(chars)) :
            /\ ij[1] <= ij[2] + 1
            /\ ij[1] = 1 \/ chars[ij[1] - 1] = ","
            /\ ij[2] = Len(chars) \/ chars[ij[2] + 1] = ","
            /\ \A k \in ij[1]..ij[2] : chars[k] # "," } }

\* The usable columns that list the target column t.
Listing(t) ==
    {k \in DOMAIN u_columns :
        t \in ListedIn(mapping_table[InForce(u_columns[k])].target_column)}

\* C12 as stated: every row upload_vidal_data inserts holds, for each mapping
\* row of temp_vidal_claims that lists several comma-separated target columns
\* for a source column of the sheet, the string form of that column's cell
\* under every listed target column, trimmed.
C12_FanOutOfEveryMapping ==
    [][(op = "upload_vidal_data" /\ Len(loaded_rows') = Len(loaded_rows) + 1) =>
          LET new == loaded_rows'[Len(loaded_rows')]
              row == df.rows[u_index']
          IN \A i \in DOMAIN mapping_table :
                (/\ mapping_table[i].target_table = "temp_vidal_claims"
                 /\ mapping_table[i].source_column \in Range(df.columns)
                 /\ IndexOf(mapping_table[i].target_column, ",") > 0) =>
                      \A t \in ListedIn(mapping_table[i].target_column) :
                         /\ t \in DictKeys(new)
                         /\ DictGet(new, t) =
                               StrV(PyStr(row[mapping_table[i].source_column]))
      ]_vars

\* C12, amended: every row upload_vidal_data inserts holds, for each usable
\* source column whose mapping in force (the last mapping row that names the
\* column) lists several comma-separated target columns, every listed target
\* column, trimmed; the value under it is the string form of that column's
\* cell, unless a source column the loop visits later lists the same target
\* column.
C12_FanOut ==
    [][(op = "upload_vidal_data" /\ Len(loaded_rows') = Len(loaded_rows) + 1) =>
          LET new == loaded_rows'[Len(loaded_rows')]
              row == df.rows[u_index']
          IN \A k \in DOMAIN u_columns :
                LET listed == mapping_table[InForce(u_columns[k])].target_column
                IN IndexOf(listed, ",") > 0 =>
                      \A t \in ListedIn(listed) :
                         /\ t \in DictKeys(new)
                         /\ (\A other \in Listing(t) : other <= k)
                               => DictGet(new, t) = StrV(PyStr(row[u_columns[k]]))
      ]_vars

\* A row was inserted that holds the cell "42" of the column name under both
\* fn and ln, the two target columns the mapping "fn, ln " lists.
C12_Witness ==
    /\ op = "upload_vidal_data"
    /\ \E i \in DOMAIN mapping_table :
          /\ mapping_table[i].source_column = "name"
          /\ mapping_table[i].target_column = <<"f", "n", ",", " ", "l", "n", " ">>
          /\ InForce("name") = i
    /\ \E r \in DOMAIN loaded_rows :
          /\ DictKeys(loaded_rows[r]) = {<<"f", "n">>, <<"l", "n">>}
          /\ DictGet(loaded_rows[r], <<"f", "n">>) = V42
          /\ DictGet(loaded_rows[r], <<"l", "n">>) = V42

\* The rows the loader has put in its table.
Loaded == IF op = "upload_mapping" THEN mapping_table ELSE loaded_rows

\* The loader has ended after its row loop took at least one row.
RowLoadEnded(ops) == op \in ops /\ u_pc = "done" /\ u_index > 0

RowLoadContinues ==
    /\ u_index = Len(df.rows)
    /\ u_result.kind = "success"
    /\ u_result.inserted_rows = Len(Loaded)
    /\ u_result.inserted_rows + Len(u_result.errors) <= Len(df.rows)

\* C13: a loader whose row loop has started takes every row of the sheet,
\* whatever inserts the database rejects, and returns the result that counts
\* the rows it loaded.
C13_RowFailureDoesNotStopLoad ==
    RowLoadEnded({"upload_data_with_mapping", "upload_vidal_data", "upload_mapping"})
        => RowLoadContinues

\* C13 for the loaders of datamapping.py: the part of the claim the code keeps.
C13_DatamappingLoadContinues ==
    RowLoadEnded({"upload_vidal_data", "upload_mapping"}) =>
        /\ RowLoadContinues
        /\ u_result.errors = errors

MappingSourceColumns == {mapping_table[i].source_column : i \in DOMAIN mapping_table}

UploadDataSucceeded ==
    op = "upload_data_with_mapping" /\ u_pc = "done" /\ u_result.kind = "success"

\* C14 as stated: the unmapped set that upload_data_with_mapping reports is
\* the set of the columns of the sheet that no mapping row names as
\* source_column.
C14_ReportsUnmappedSheetColumns ==
    UploadDataSucceeded =>
        Range(u_result.missing_columns) = Range(df.columns) \ MappingSourceColumns

\* C14, amended: the unmapped_source_columns that the success result of
\* upload_data_with_mapping reports are the source columns of the mapping
\* rows that the sheet lacks, each once, and nothing else.
C14_ReportsMappedColumnsSheetLacks ==
    UploadDataSucceeded =>
        /\ Range(u_result.missing_columns) = MappingSourceColumns \ Range(df.columns)
        /\ Len(u_result.missing_columns) = Cardinality(Range(u_result.missing_columns))

\* A success that reports zz, which a mapping row names and the sheet lacks,
\* and not the sheet's columns b and other, which no mapping row names.
C14_Witness ==
    /\ UploadDataSucceeded
    /\ u_result.missing_columns = <<"zz">>
    /\ {"b", "other"} \subseteq Range(df.columns) \ MappingSourceColumns

DateGiven == args.start_date # "" \/ args.end_date # ""

\* C15: the conditions of the source query of process_target_table never
\* name the placeholder column_name, only columns the source table has; and
\* with a date given and no date column declared for the source, the query
\* (when it projects some column) is sent without condition and runs.
C15_DateFilterNamesRealColumn ==
    \A n \in Sent("SELECT source") :
        /\ \A c \in DOMAIN db_log[n].cols :
              /\ db_log[n].cols[c].k # "column_name"
              /\ db_log[n].cols[c].k \in SourceTableColumns
        /\ source_columns(valid_mappings) # {} => db_log[n].ok

\* C15 for the calls without start_date and end_date: the part of the claim
\* the code keeps.
C15_QueryRunsWithoutDates ==
    \A n \in Sent("SELECT source") :
        (~DateGiven /\ source_columns(valid_mappings) # {}) =>
            db_log[n].ok /\ db_log[n].cols = <<>>

\* The expressions of the model that call a name other than source.
CallsAmbientName(transformation_logic) ==
    transformation_logic \in {"int(source)", "len(source)"}

\* C16: the evaluation of a transformation expression binds source and no
\* other name: an expression that calls another name (int, len) finds it
\* unbound, its evaluation raises, and the column it writes is inserted as
\* null.
C16_OnlySourceBound ==
    \A n \in Sent("INSERT") :
        \A k \in DOMAIN valid_mappings :
            (/\ CallsAmbientName(valid_mappings[k].transformation_logic)
             /\ LastWriter(k)
             /\ valid_mappings[k].target_column \in DOMAIN table_columns)
               => DictGet(db_log[n].cols, valid_mappings[k].target_column) = NoneV

\* C17: sanitizing a table name is idempotent: the sanitized name, sanitized
\* again, is the same string.
C17_SanitizeIdempotent == n_pc = "twice" => n_twice = n_once

\* A name with an upper-case letter and a character that is not alphanumeric
\* went through both passes; the first pass lowered the letter and replaced
\* the character.
C17_Witness ==
    /\ n_pc = "twice"
    /\ \E i \in 1..Len(n_name) : n_name[i] = "Q"
    /\ \E i \in 1..Len(n_name) : n_name[i] \in {" ", "-", "."}
    /\ n_once # n_name
    /\ \E i \in 1..Len(n_once) : n_once[i] = "q"
    /\ \E i \in 1..Len(n_once) : n_once[i] = "_"

\* C18: once schedule_processing has committed its Scheduled record, the
\* record is Completed when the call returns, whatever the processing step
\* gave: success, an error result, or no database connection of its own.
C18_RecordCompletedOnReturn ==
    (s_pc = "done" /\ s_inserted # 0) =>
        scheduler_details[s_inserted].status = "Completed"

\* C18 for the runs whose processing step returned a result, success or error.
C18_CompletedWhenProcessorReturns ==
    (s_pc = "done" /\ s_inserted # 0 /\ p_result.kind \in {"success", "error"}) =>
        scheduler_details[s_inserted].status = "Completed"

\* C19: schedule_processing changes no record of scheduler_details but the
\* one it inserted: the records of other runs, those of earlier runs with the
\* same scheduler_name included, keep their status and end_date_time.
C19_OtherRecordsUnchanged ==
    [][\A i \in 1..Len(scheduler_details) :
          i # s_inserted' =>
              /\ scheduler_details'[i].status = scheduler_details[i].status
              /\ scheduler_details'[i].end_date_time =
                    scheduler_details[i].end_date_time]_vars

\* C19 for the records of the other scheduler names.
C19_OtherNamesUnchanged ==
    [][\A i \in 1..Len(scheduler_details) :
          scheduler_details[i].scheduler_name # args.scheduler_name =>
              scheduler_details'[i] = scheduler_details[i]]_vars

\* C20: when connect_to_mysql gives no connection, the operation returns an
\* error result and does not raise: the loaders return the "Database
\* connection failed" error, process_target_table and schedule_processing an
\* error dict.
C20_ConnectFailureReturnsError ==
    /\ (p_pc = "done" /\ p_connection = "None") => p_result.kind = "error"
    /\ (s_pc = "done" /\ s_connection = "None") => s_result.kind = "error"
    /\ (u_pc = "done" /\ u_connection = "None") =>
          /\ u_result.kind = "error"
          /\ u_result.error = "Database connection failed"

\* The mappings of the target table whose source_column the source table
\* lacks.
Dropped == {k \in DOMAIN mappings : mappings[k].source_column \notin SourceTableColumns}

DescribedSource == \E n \in Sent("DESCRIBE source") : db_log[n].ok

\* The target columns of the mappings that are not dropped.
KeptTargets ==
    {mappings[k].target_column : k \in DOMAIN mappings \ Dropped}

DroppedSilently ==
    /\ source_columns(valid_mappings) \subseteq SourceTableColumns
    /\ \A n \in Sent("SELECT source") : ~DateGiven => db_log[n].ok
    /\ \A n \in Sent("INSERT") : DictKeys(db_log[n].cols) \subseteq KeptTargets
    /\ \A r \in DOMAIN target_rows : DictKeys(target_rows[r]) \subseteq KeptTargets

\* C21: mappings of process_target_table whose source_column the source table
\* lacks are dropped silently: the projection names only columns of the
\* source table, the source query (sent without dates) runs, and no inserted
\* row has a column that only a dropped mapping writes; also when every
\* mapping is dropped.
C21_DroppedMappingsSilent ==
    (DescribedSource /\ Dropped # {}) => DroppedSilently

\* C21 for the calls that keep a mapping.
C21_SilentWhenSomeMappingKept ==
    (DescribedSource /\ Dropped # {} /\ valid_mappings # <<>>) => DroppedSilently

====
